---------------------------- MODULE Spec2Model ----------------------------
(***************************************************************************)
(* Model of the ag-kernel execution engine (core/engine.c, core/types.h,   *)
(* core/engine.h) and of the batch entry point of the Rust wrapper.        *)
(*                                                                         *)
(* A handle is a record; the functions of engine.c are operators from a    *)
(* handle (and an argument) to the handle they leave behind.  The C        *)
(* doubles are modelled as exact rationals [n, d] in lowest terms, the     *)
(* int64 quantities and price ticks as integers.                           *)
(***************************************************************************)
EXTENDS Integers, Sequences, FiniteSets, TLC

(***************************************************************************)
(* Bounds of the model.                                                    *)
(***************************************************************************)
\* Capacity of the open-order array.  engine.c uses 1024; the model keeps the
\* same comparisons against a capacity small enough to be filled.
MAX_OPEN_ORDERS == 2
\* Number of orders a handle accepts between its creation or reset and the next.
MaxPlaced == 3
\* Longest batch handed to step_batch.
MaxBatch == 2
\* Largest magnitude of a price tick handed to apply_spread on its own.
MaxSpreadTick == 120
\* Number of fills handed to execute_fill on its own, and the largest
\* position, in whole units, they may build.
MaxFills == 3
MaxPositionUnits == 10

(***************************************************************************)
(* types.h                                                                 *)
(***************************************************************************)
SIDE_BUY == 0
SIDE_SELL == 1
ORDER_TYPE_LIMIT == 0
ORDER_TYPE_MARKET == 1

\* Quantities cross the boundary in micro-units.
MICRO == 1000000
\* Basis points.
BPS == 10000

(***************************************************************************)
(* double, as exact rationals in lowest terms with a positive denominator. *)
(***************************************************************************)
Abs(x) == IF x < 0 THEN -x ELSE x

RECURSIVE GCD(_, _)
GCD(a, b) == IF b = 0 THEN a ELSE GCD(b, a % b)

Rat(n, d) ==
    LET s == IF d < 0 THEN -1 ELSE 1
        g == GCD(Abs(n), Abs(d))
    IN  [n |-> (s * n) \div g, d |-> (s * d) \div g]

D(i) == [n |-> i, d |-> 1]
RAdd(a, b) ==
    LET g == GCD(a.d, b.d)
    IN  Rat(a.n * (b.d \div g) + b.n * (a.d \div g), (a.d \div g) * b.d)
RNeg(a) == [n |-> -a.n, d |-> a.d]
RSub(a, b) == RAdd(a, RNeg(b))
RMul(a, b) ==
    LET g1 == GCD(Abs(a.n), b.d)
        g2 == GCD(Abs(b.n), a.d)
    IN  Rat((a.n \div g1) * (b.n \div g2), (a.d \div g2) * (b.d \div g1))
RDiv(a, b) == RMul(a, Rat(b.d, b.n))
RLe(a, b) == a.n * b.d <= b.n * a.d
RLt(a, b) == a.n * b.d < b.n * a.d
\* (int64_t)ceil(x)
CeilInt(a) == -((-a.n) \div a.d)


(***************************************************************************)
(* engine.c: the handle and its helpers.                                   *)
(***************************************************************************)
\* The null pointer (a failed engine_new, or no handle yet).
NULL == [null |-> TRUE]

\* struct engine_handle_s.  orders holds the first order_count slots of the
\* array, so order_count is Len(orders); each slot is a tracked_order_t.
order_count(h) == Len(h.orders)

\* An unrealized P&L per unit held: the price move times tick_size, with the
\* sign of the position but not its size.
calculate_unrealized_pnl_per_unit(h) ==
    IF h.position = 0
    THEN D(0)
    ELSE LET direction == IF h.position > 0 THEN D(1) ELSE D(0 - 1)
             position_value == RMul(RMul(direction, D(h.last_tick_price)),
                                    h.config.tick_size)
             entry_value == RMul(RMul(direction, h.avg_entry_price),
                                 h.config.tick_size)
         IN  RSub(position_value, entry_value)

calculate_unrealized_pnl(h) ==
    IF h.position = 0
    THEN D(0)
    ELSE LET position_descaled == Rat(h.position, MICRO)
             position_value == RMul(RMul(position_descaled, D(h.last_tick_price)),
                                    h.config.tick_size)
             entry_value == RMul(RMul(position_descaled, h.avg_entry_price),
                                 h.config.tick_size)
         IN  RSub(position_value, entry_value)

\* A fee that reads the maker rate where the taker rate belongs.
calculate_fee_inverted(h, notional, is_maker) ==
    LET fee_bps == IF is_maker # 0 THEN h.config.taker_fee_bps
                                   ELSE h.config.maker_fee_bps
    IN  RMul(notional, RDiv(fee_bps, D(BPS)))

\* A fee that takes the basis points for percent.
calculate_fee_percent(h, notional, is_maker) ==
    LET fee_bps == IF is_maker # 0 THEN h.config.maker_fee_bps
                                   ELSE h.config.taker_fee_bps
    IN  RMul(notional, RDiv(fee_bps, D(100)))

calculate_fee(h, notional, is_maker) ==
    LET fee_bps == IF is_maker # 0 THEN h.config.maker_fee_bps
                                   ELSE h.config.taker_fee_bps
    IN  RMul(notional, RDiv(fee_bps, D(BPS)))

apply_spread(h, price_tick, side) ==
    LET spread_multiplier == RDiv(h.config.spread_bps, D(BPS))
        spread_ticks == RMul(D(price_tick), spread_multiplier)
    IN  IF side = SIDE_BUY
        THEN price_tick + CeilInt(spread_ticks)
        ELSE price_tick - CeilInt(spread_ticks)

\* An average entry price that the fill closing the position leaves as it
\* was.
FillAvgEntry_keep_on_close(h, order, fill_price_tick, old_position, new_position) ==
    IF old_position = 0
    THEN D(fill_price_tick)
    ELSE IF (old_position > 0 /\ order.side = SIDE_BUY)
            \/ (old_position < 0 /\ order.side = SIDE_SELL)
    THEN LET old_value == RMul(D(old_position), h.avg_entry_price)
             new_value == RMul(D(order.qty), D(fill_price_tick))
         IN  RDiv(RAdd(old_value, new_value), D(new_position))
    ELSE IF new_position # 0
            /\ ((old_position > 0 /\ new_position < 0)
                \/ (old_position < 0 /\ new_position > 0))
    THEN D(fill_price_tick)
    ELSE h.avg_entry_price

\* An average entry price that every reducing fill sets to zero, not only
\* the one that closes the position.
FillAvgEntry_zero_on_reduce(h, order, fill_price_tick, old_position, new_position) ==
    IF old_position = 0
    THEN D(fill_price_tick)
    ELSE IF (old_position > 0 /\ order.side = SIDE_BUY)
            \/ (old_position < 0 /\ order.side = SIDE_SELL)
    THEN LET old_value == RMul(D(old_position), h.avg_entry_price)
             new_value == RMul(D(order.qty), D(fill_price_tick))
         IN  RDiv(RAdd(old_value, new_value), D(new_position))
    ELSE IF new_position # 0
            /\ ((old_position > 0 /\ new_position < 0)
                \/ (old_position < 0 /\ new_position > 0))
    THEN D(fill_price_tick)
    ELSE D(0)

\* An average entry price without the branch for a fill from flat, which
\* then is averaged like an addition.
FillAvgEntry_no_open_branch(h, order, fill_price_tick, old_position, new_position) ==
    IF old_position = 0
       \/ (old_position > 0 /\ order.side = SIDE_BUY)
       \/ (old_position < 0 /\ order.side = SIDE_SELL)
    THEN LET old_value == RMul(D(old_position), h.avg_entry_price)
             new_value == RMul(D(order.qty), D(fill_price_tick))
         IN  RDiv(RAdd(old_value, new_value), D(new_position))
    ELSE IF new_position # 0
            /\ ((old_position > 0 /\ new_position < 0)
                \/ (old_position < 0 /\ new_position > 0))
    THEN D(fill_price_tick)
    ELSE IF new_position = 0
    THEN D(0)
    ELSE h.avg_entry_price

\* An average entry price that a fill across zero leaves as it was.
FillAvgEntry_no_flip(h, order, fill_price_tick, old_position, new_position) ==
    IF old_position = 0
    THEN D(fill_price_tick)
    ELSE IF (old_position > 0 /\ order.side = SIDE_BUY)
            \/ (old_position < 0 /\ order.side = SIDE_SELL)
    THEN LET old_value == RMul(D(old_position), h.avg_entry_price)
             new_value == RMul(D(order.qty), D(fill_price_tick))
         IN  RDiv(RAdd(old_value, new_value), D(new_position))
    ELSE IF new_position = 0
    THEN D(0)
    ELSE h.avg_entry_price

\* The average entry price execute_fill leaves, given the position before and
\* after the fill.
FillAvgEntry(h, order, fill_price_tick, old_position, new_position) ==
    IF old_position = 0
    THEN D(fill_price_tick)
    ELSE IF (old_position > 0 /\ order.side = SIDE_BUY)
            \/ (old_position < 0 /\ order.side = SIDE_SELL)
    THEN LET old_value == RMul(D(old_position), h.avg_entry_price)
             new_value == RMul(D(order.qty), D(fill_price_tick))
         IN  RDiv(RAdd(old_value, new_value), D(new_position))
    ELSE IF new_position # 0
            /\ ((old_position > 0 /\ new_position < 0)
                \/ (old_position < 0 /\ new_position > 0))
    THEN D(fill_price_tick)
    ELSE IF new_position = 0
    THEN D(0)
    ELSE h.avg_entry_price

\* A realized P&L that takes every position for long.
FillRealizedPnl_long_only(h, order, fill_price_tick, old_position) ==
    IF old_position = 0
       \/ (old_position > 0 /\ order.side = SIDE_BUY)
       \/ (old_position < 0 /\ order.side = SIDE_SELL)
    THEN h.realized_pnl
    ELSE LET fill_qty == order.qty
             qty_reducing == IF Abs(old_position) >= fill_qty
                             THEN fill_qty ELSE Abs(old_position)
             qty_reducing_descaled == Rat(qty_reducing, MICRO)
             exit_value == RMul(RMul(qty_reducing_descaled, D(fill_price_tick)),
                                h.config.tick_size)
             entry_value == RMul(RMul(qty_reducing_descaled, h.avg_entry_price),
                                 h.config.tick_size)
         IN  RAdd(h.realized_pnl, RSub(exit_value, entry_value))

\* A realized P&L that the fee of a reducing fill is deducted from, as it is
\* from cash.
FillRealizedPnl_net_of_fee(h, order, fill_price_tick, old_position) ==
    IF old_position = 0
       \/ (old_position > 0 /\ order.side = SIDE_BUY)
       \/ (old_position < 0 /\ order.side = SIDE_SELL)
    THEN h.realized_pnl
    ELSE LET fill_qty == order.qty
             notional == RMul(RMul(D(fill_price_tick), h.config.tick_size),
                              Rat(fill_qty, MICRO))
             fee == calculate_fee(h, notional, 0)
             qty_reducing == IF Abs(old_position) >= fill_qty
                             THEN fill_qty ELSE Abs(old_position)
             qty_reducing_descaled == Rat(qty_reducing, MICRO)
             exit_value == RMul(RMul(qty_reducing_descaled, D(fill_price_tick)),
                                h.config.tick_size)
             entry_value == RMul(RMul(qty_reducing_descaled, h.avg_entry_price),
                                 h.config.tick_size)
         IN  IF old_position > 0
             THEN RSub(RAdd(h.realized_pnl, RSub(exit_value, entry_value)), fee)
             ELSE RSub(RAdd(h.realized_pnl, RSub(entry_value, exit_value)), fee)

\* The realized P&L execute_fill leaves.
FillRealizedPnl(h, order, fill_price_tick, old_position) ==
    IF old_position = 0
       \/ (old_position > 0 /\ order.side = SIDE_BUY)
       \/ (old_position < 0 /\ order.side = SIDE_SELL)
    THEN h.realized_pnl
    ELSE LET fill_qty == order.qty
             qty_reducing == IF Abs(old_position) >= fill_qty
                             THEN fill_qty ELSE Abs(old_position)
             qty_reducing_descaled == Rat(qty_reducing, MICRO)
             exit_value == RMul(RMul(qty_reducing_descaled, D(fill_price_tick)),
                                h.config.tick_size)
             entry_value == RMul(RMul(qty_reducing_descaled, h.avg_entry_price),
                                 h.config.tick_size)
         IN  IF old_position > 0
             THEN RAdd(h.realized_pnl, RSub(exit_value, entry_value))
             ELSE RAdd(h.realized_pnl, RSub(entry_value, exit_value))

\* A position that a sell takes down to zero and no further.
FillNewPosition_no_short(old_position, order) ==
    IF order.side = SIDE_BUY
    THEN old_position + order.qty
    ELSE IF old_position - order.qty < 0 /\ old_position >= 0
    THEN 0
    ELSE old_position - order.qty

\* new_position: old_position += fill_qty on a buy, -= fill_qty on a sell.
FillNewPosition(old_position, order) ==
    IF order.side = SIDE_BUY
    THEN old_position + order.qty
    ELSE old_position - order.qty

execute_fill(h, order, fill_price_tick) ==
    LET fill_qty == order.qty
        fill_price == RMul(D(fill_price_tick), h.config.tick_size)
        notional == RMul(fill_price, Rat(fill_qty, MICRO))
        fee == calculate_fee(h, notional, 0)
        old_position == h.position
        new_position == FillNewPosition(old_position, order)
    IN  [h EXCEPT
            !.cash = IF order.side = SIDE_BUY
                     THEN RSub(h.cash, RAdd(notional, fee))
                     ELSE RAdd(h.cash, RSub(notional, fee)),
            !.avg_entry_price =
                FillAvgEntry(h, order, fill_price_tick, old_position, new_position),
            !.realized_pnl = FillRealizedPnl(h, order, fill_price_tick, old_position),
            !.position = new_position]

\* The eligibility test with strict comparisons.
should_fill_order_strict(order, tick) ==
    IF order.type = ORDER_TYPE_MARKET
    THEN TRUE
    ELSE IF order.side = SIDE_BUY
    THEN tick.price_tick < order.price_tick
    ELSE tick.price_tick > order.price_tick

\* An eligibility test that makes a market order wait, and fills limit
\* orders only.
should_fill_order_limit_only(order, tick) ==
    IF order.type = ORDER_TYPE_MARKET
    THEN FALSE
    ELSE IF order.side = SIDE_BUY
    THEN tick.price_tick <= order.price_tick
    ELSE tick.price_tick >= order.price_tick

\* An eligibility test that wants the tick to be a trade of the other side.
should_fill_order_against_flow(order, tick) ==
    /\ tick.side # order.side
    /\ IF order.type = ORDER_TYPE_MARKET
       THEN TRUE
       ELSE IF order.side = SIDE_BUY
       THEN tick.price_tick <= order.price_tick
       ELSE tick.price_tick >= order.price_tick

should_fill_order(order, tick) ==
    IF order.type = ORDER_TYPE_MARKET
    THEN TRUE
    ELSE IF order.side = SIDE_BUY
    THEN tick.price_tick <= order.price_tick
    ELSE tick.price_tick >= order.price_tick


(***************************************************************************)
(* engine.c: the public functions.  Each returns what the call leaves:     *)
(* the handle, and the int the C function returns where it returns one.    *)
(***************************************************************************)
FreshHandle(cfg) ==
    [config |-> cfg,
     current_ts_ms |-> 0,
     cash |-> cfg.initial_cash,
     position |-> 0,
     avg_entry_price |-> D(0),
     realized_pnl |-> D(0),
     orders |-> <<>>,
     last_tick_price |-> 0]

\* malloc_ok: whether malloc returned memory.
engine_new(cfg, malloc_ok) ==
    IF cfg = NULL THEN NULL
    ELSE IF ~malloc_ok THEN NULL
    ELSE FreshHandle(cfg)

\* A reset that leaves the open orders where they are.
engine_reset_keeps_orders(h) ==
    IF h = NULL THEN h
    ELSE [FreshHandle(h.config) EXCEPT !.orders = h.orders]

engine_reset(h) ==
    IF h = NULL THEN h ELSE FreshHandle(h.config)

\* A fill loop that runs from the last slot down to the first.
TickScanOrder_reversed(n) == [k \in 1..n |-> n + 1 - k]

\* The slots the fill loop of engine_step_tick visits, in the order it visits
\* them: for (i = 0; i < order_count; i++).
TickScanOrder(n) == [k \in 1..n |-> k]

\* A fill loop that does not skip inactive slots.
TickConsiders_all(e) == TRUE

\* if (!h->orders[i].active) continue;
TickConsiders(e) == e.active # 0

\* A fill price taken from the tick for every order.
FillPriceTick_from_tick(h, order, tick) ==
    apply_spread(h, tick.price_tick, order.side)

\* The price an eligible order fills at.
FillPriceTick(h, order, tick) ==
    IF order.type = ORDER_TYPE_MARKET
    THEN apply_spread(h, tick.price_tick, order.side)
    ELSE apply_spread(h, order.price_tick, order.side)

\* A fill loop that leaves the slot of a filled order active.
MarkInactive_never(h, i) == h

\* h->orders[i].active = 0;
MarkInactive(h, i) == [h EXCEPT !.orders[i].active = 0]

\* The fill loop from position k of the scan on: st.h is the handle so far,
\* st.fills the fills executed so far (order and fill price, in execution
\* order).
RECURSIVE FillLoop(_, _, _, _)
FillLoop(st, tick, scan, k) ==
    IF k > Len(scan) THEN st
    ELSE LET i == scan[k]
             e == st.h.orders[i]
         IN  IF ~TickConsiders(e) THEN FillLoop(st, tick, scan, k + 1)
             ELSE IF should_fill_order(e.order, tick)
             THEN LET fill_price_tick == FillPriceTick(st.h, e.order, tick)
                      h1 == execute_fill(st.h, e.order, fill_price_tick)
                      h2 == MarkInactive(h1, i)
                  IN  FillLoop([h |-> h2,
                                fills |-> Append(st.fills,
                                    [order |-> e.order,
                                     fill_price_tick |-> fill_price_tick])],
                               tick, scan, k + 1)
             ELSE FillLoop(st, tick, scan, k + 1)

\* A compaction that writes the active slots down last first.
RECURSIVE CompactLoop_reversing(_, _, _)
CompactLoop_reversing(orders, read_idx, out) ==
    IF read_idx > Len(orders) THEN out
    ELSE IF orders[read_idx].active # 0
    THEN CompactLoop_reversing(orders, read_idx + 1, <<orders[read_idx]>> \o out)
    ELSE CompactLoop_reversing(orders, read_idx + 1, out)

\* The compaction loop: read_idx runs over the slots, the active ones are
\* written down in order.
RECURSIVE CompactLoop(_, _, _)
CompactLoop(orders, read_idx, out) ==
    IF read_idx > Len(orders) THEN out
    ELSE IF orders[read_idx].active # 0
    THEN CompactLoop(orders, read_idx + 1, Append(out, orders[read_idx]))
    ELSE CompactLoop(orders, read_idx + 1, out)

\* A tick that never moves the time of the handle back.
RecordTick_monotonic(h, tick) ==
    [h EXCEPT !.current_ts_ms = IF tick.ts_ms > @ THEN tick.ts_ms ELSE @,
              !.last_tick_price = tick.price_tick]

\* A tick that records its time and not its price.
RecordTick_time_only(h, tick) == [h EXCEPT !.current_ts_ms = tick.ts_ms]

\* h->current_ts_ms = tick->ts_ms; h->last_tick_price = tick->price_tick;
RecordTick(h, tick) ==
    [h EXCEPT !.current_ts_ms = tick.ts_ms,
              !.last_tick_price = tick.price_tick]

engine_step_tick(h, tick) ==
    IF h = NULL \/ tick = NULL
    THEN [h |-> h, ret |-> -1, fills |-> <<>>]
    ELSE LET h0 == RecordTick(h, tick)
             st == FillLoop([h |-> h0, fills |-> <<>>], tick,
                            TickScanOrder(order_count(h0)), 1)
         IN  [h |-> [st.h EXCEPT !.orders = CompactLoop(st.h.orders, 1, <<>>)],
              ret |-> 0,
              fills |-> st.fills]

\* The capacity check off by one.
order_book_full_gt(h) == order_count(h) > MAX_OPEN_ORDERS

\* if (h->order_count >= MAX_OPEN_ORDERS) return -2;
order_book_full(h) == order_count(h) >= MAX_OPEN_ORDERS

\* A placement that executes a market order on the spot, at the last tick
\* price, in place of storing it.
engine_place_order_fill_now(h, order) ==
    IF h = NULL \/ order = NULL
    THEN [h |-> h, ret |-> -1]
    ELSE IF order_book_full(h)
    THEN [h |-> h, ret |-> -2]
    ELSE IF order.type = ORDER_TYPE_MARKET
    THEN [h |-> execute_fill(h, order,
                             apply_spread(h, h.last_tick_price, order.side)),
          ret |-> 0]
    ELSE [h |-> [h EXCEPT !.orders = Append(h.orders,
                                            [order |-> order, active |-> 1])],
          ret |-> 0]

\* A placement that stores the order in the last slot before it reports a
\* full array.
engine_place_order_store_first(h, order) ==
    IF h = NULL \/ order = NULL
    THEN [h |-> h, ret |-> -1]
    ELSE IF order_book_full(h)
    THEN [h |-> [h EXCEPT !.orders[order_count(h)] =
                              [order |-> order, active |-> 1]],
          ret |-> -2]
    ELSE [h |-> [h EXCEPT !.orders = Append(h.orders,
                                            [order |-> order, active |-> 1])],
          ret |-> 0]

engine_place_order(h, order) ==
    IF h = NULL \/ order = NULL
    THEN [h |-> h, ret |-> -1]
    ELSE IF order_book_full(h)
    THEN [h |-> h, ret |-> -2]
    ELSE [h |-> [h EXCEPT !.orders = Append(h.orders,
                                            [order |-> order, active |-> 1])],
          ret |-> 0]

\* A match on the id alone.
CancelMatches_id_only(e, order_id) == e.order.order_id = order_id

\* if (h->orders[i].active && h->orders[i].order.order_id == order_id)
CancelMatches(e, order_id) == e.active # 0 /\ e.order.order_id = order_id

\* The cancel loop from slot i on.
RECURSIVE CancelLoop(_, _, _)
CancelLoop(h, order_id, i) ==
    IF i > order_count(h) THEN [h |-> h, ret |-> -1]
    ELSE IF CancelMatches(h.orders[i], order_id)
    THEN [h |-> [h EXCEPT !.orders[i].active = 0], ret |-> 0]
    ELSE CancelLoop(h, order_id, i + 1)

\* A cancellation that deactivates every active order of the id, not the
\* first one only.
engine_cancel_order_every_match(h, order_id) ==
    IF h = NULL THEN [h |-> h, ret |-> -1]
    ELSE IF \E i \in 1..Len(h.orders) : CancelMatches(h.orders[i], order_id)
    THEN [h |-> [h EXCEPT !.orders =
                    [i \in 1..Len(h.orders) |->
                        IF CancelMatches(h.orders[i], order_id)
                        THEN [h.orders[i] EXCEPT !.active = 0]
                        ELSE h.orders[i]]],
          ret |-> 0]
    ELSE [h |-> h, ret |-> -1]

engine_cancel_order(h, order_id) ==
    IF h = NULL THEN [h |-> h, ret |-> -1]
    ELSE CancelLoop(h, order_id, 1)

ZeroSnapshot ==
    [ts_ms |-> 0, cash |-> D(0), position |-> 0, avg_entry_price |-> D(0),
     realized_pnl |-> D(0), unrealized_pnl |-> D(0), equity |-> D(0)]

\* A snapshot whose equity counts the realized P&L a second time, on top of
\* the cash that holds it.
engine_get_snapshot_adds_realized(h) ==
    IF h = NULL THEN ZeroSnapshot
    ELSE LET unrealized_pnl == calculate_unrealized_pnl(h)
         IN  [ts_ms |-> h.current_ts_ms,
              cash |-> h.cash,
              position |-> h.position,
              avg_entry_price |-> h.avg_entry_price,
              realized_pnl |-> h.realized_pnl,
              unrealized_pnl |-> unrealized_pnl,
              equity |-> RAdd(RAdd(h.cash, unrealized_pnl), h.realized_pnl)]

engine_get_snapshot(h) ==
    IF h = NULL THEN ZeroSnapshot
    ELSE LET unrealized_pnl == calculate_unrealized_pnl(h)
         IN  [ts_ms |-> h.current_ts_ms,
              cash |-> h.cash,
              position |-> h.position,
              avg_entry_price |-> h.avg_entry_price,
              realized_pnl |-> h.realized_pnl,
              unrealized_pnl |-> unrealized_pnl,
              equity |-> RAdd(h.cash, unrealized_pnl)]

\* get_snapshot of the Rust wrapper (crates/ag-core/src/lib.rs) hands on the
\* snapshot of the kernel with the position scaled back to real units.

\* A snapshot that hands on the position as the kernel stores it.
get_snapshot_raw(h) ==
    LET snap == engine_get_snapshot(h)
    IN  [snap EXCEPT !.position = D(snap.position)]

\* position: snap.position as f64 / 1000000.0
get_snapshot(h) ==
    LET snap == engine_get_snapshot(h)
    IN  [snap EXCEPT !.position = Rat(snap.position, MICRO)]


(***************************************************************************)
(* The batch entry point of the Rust wrapper (crates/ag-core/src/lib.rs).  *)
(* It takes four arrays, scales each quantity to micro-units and steps the *)
(* kernel once per index, in index order.                                  *)
(***************************************************************************)
LENGTH_MISMATCH == -3
INVALID_TICK == -4

\* (qty * 1000000.0) as i64: scale, then truncate toward zero.
ScaleQty(qty) ==
    LET x == RMul(qty, D(MICRO))
    IN  IF x.n >= 0 THEN x.n \div x.d ELSE -((-x.n) \div x.d)

\* Side encoding in batch form: 0 = buy, 1 = sell.
BatchSideValid(s) == s = 0 \/ s = 1
BatchSide(s) == IF s = 0 THEN SIDE_BUY ELSE SIDE_SELL

\* The tick_event_t built from index i of the arrays.
BatchTick(b, i) ==
    [ts_ms |-> b.timestamps[i],
     price_tick |-> b.price_ticks[i],
     qty |-> ScaleQty(b.qtys[i]),
     side |-> BatchSide(b.sides[i])]

\* A batch loop that skips every other index.
BatchNextIndex_skip(i) == i + 2

\* The index after i in the batch loop.
BatchNextIndex(i) == i + 1

RECURSIVE BatchLoop(_, _, _)
BatchLoop(st, b, i) ==
    IF i > Len(b.timestamps) THEN st
    ELSE LET r == engine_step_tick(st.h, BatchTick(b, i))
         IN  IF r.ret # 0
             THEN [h |-> r.h, ret |-> r.ret, fills |-> st.fills \o r.fills]
             ELSE BatchLoop([h |-> r.h, ret |-> 0, fills |-> st.fills \o r.fills],
                            b, BatchNextIndex(i))

step_batch(h, b) ==
    IF Len(b.price_ticks) # Len(b.timestamps)
       \/ Len(b.qtys) # Len(b.timestamps)
       \/ Len(b.sides) # Len(b.timestamps)
    THEN [h |-> h, ret |-> LENGTH_MISMATCH, fills |-> <<>>]
    ELSE IF \E i \in 1..Len(b.sides) : ~BatchSideValid(b.sides[i])
    THEN [h |-> h, ret |-> INVALID_TICK, fills |-> <<>>]
    ELSE BatchLoop([h |-> h, ret |-> 0, fills |-> <<>>], b, 1)

(***************************************************************************)
(* Inputs.                                                                 *)
(***************************************************************************)
Config(maker, taker, spread, cash, tick_size) ==
    [maker_fee_bps |-> D(maker), taker_fee_bps |-> D(taker),
     spread_bps |-> D(spread), initial_cash |-> D(cash),
     tick_size |-> D(tick_size)]

\* A configuration with a taker fee of 10 bps and a spread of 100 bps.
ConfigInputs == { Config(0, 10, 100, 100000, 1) }

Order(id, type, side, qty, price_tick) ==
    [order_id |-> id, type |-> type, side |-> side, qty |-> qty,
     price_tick |-> price_tick]

\* Two market orders, a buy limit between the two tick prices, a sell limit
\* at the upper tick price that shares its id with the first order, and a
\* sell limit above both tick prices.
OrderInputs ==
    { Order(1, ORDER_TYPE_MARKET, SIDE_BUY, MICRO, 0),
      Order(2, ORDER_TYPE_MARKET, SIDE_SELL, MICRO, 0),
      Order(3, ORDER_TYPE_LIMIT, SIDE_BUY, MICRO, 105),
      Order(1, ORDER_TYPE_LIMIT, SIDE_SELL, 2 * MICRO, 110),
      Order(2, ORDER_TYPE_LIMIT, SIDE_SELL, MICRO, 120) }

OrderIds == {1, 2, 3}

\* Two ticks, the later one at the higher price.  Their quantity and side
\* are market data the kernel is handed and does not act on.
TickLow == [ts_ms |-> 1, price_tick |-> 100, qty |-> MICRO, side |-> SIDE_SELL]
TickHigh == [ts_ms |-> 2, price_tick |-> 110, qty |-> MICRO, side |-> SIDE_BUY]
TickInputs == {TickLow, TickHigh}

SeqsUpTo(S, n) == UNION { [1..k -> S] : k \in 0..n }

\* The four arrays of a batch that carries the ticks of a sequence (the
\* quantities in real units, the sides in the batch encoding).
Batch(ticks) ==
    [timestamps |-> [i \in 1..Len(ticks) |-> ticks[i].ts_ms],
     price_ticks |-> [i \in 1..Len(ticks) |-> ticks[i].price_tick],
     qtys |-> [i \in 1..Len(ticks) |-> Rat(ticks[i].qty, MICRO)],
     sides |-> [i \in 1..Len(ticks) |-> IF ticks[i].side = SIDE_BUY THEN 0 ELSE 1]]

\* Every well-formed batch of up to MaxBatch ticks, and two ill-formed ones:
\* a sides array one short, and a second side that is neither 0 nor 1.
BatchInputs ==
    { Batch(ts) : ts \in SeqsUpTo(TickInputs, MaxBatch) }
    \cup { [Batch(<<TickLow, TickHigh>>) EXCEPT !.sides = <<1>>],
           [Batch(<<TickLow, TickHigh>>) EXCEPT !.sides[2] = 2] }

(***************************************************************************)
(* The state machine: one caller holding at most one handle.  The caller   *)
(* makes a call, looks at what it returned, and makes the next call.  The  *)
(* actions say what a call does to that handle; the second handle h2 is    *)
(* the business of the next-state relations.                               *)
(***************************************************************************)
VARIABLES
    h,        \* the handle, or NULL
    placed,   \* the orders the handle accepted since it was created or reset
    fills,    \* the fills executed since the handle was created or reset
    lastOp,   \* the call the caller is looking at ("none" between calls)
    arg,      \* its argument
    pre,      \* the handle as it was before that call
    ret,      \* the int the call returned (0 for a void function)
    snap,     \* the snapshot it returned, if it was engine_get_snapshot
    newFills, \* the fills the call executed, in the order it executed them
    h2,       \* a second handle that is handed the same calls, or NULL
    handles   \* where two callers hold a handle each: the pointers they hold

vars == <<h, placed, fills, lastOp, arg, pre, ret, snap, newFills, h2, handles>>

NoArg == [none |-> TRUE]
NoSnapshot == [none |-> TRUE]

Init ==
    /\ h = NULL
    /\ placed = 0
    /\ fills = <<>>
    /\ lastOp = "none"
    /\ arg = NoArg
    /\ pre = NULL
    /\ ret = 0
    /\ snap = NoSnapshot
    /\ newFills = <<>>
    /\ h2 = NULL
    /\ handles = <<0, 0>>

\* What a call on a handle records for the caller to look at: r is the int
\* it returned, s the snapshot, f the fills it executed.
Called(op, a, r, s, f) ==
    /\ lastOp = "none"
    /\ lastOp' = op
    /\ arg' = a
    /\ pre' = h
    /\ ret' = r
    /\ snap' = s
    /\ newFills' = f
    /\ fills' = fills \o f

EngineNew(cfg, malloc_ok) ==
    /\ h = NULL
    /\ lastOp = "none"
    /\ lastOp' = "engine_new"
    /\ arg' = [cfg |-> cfg, malloc_ok |-> malloc_ok]
    /\ pre' = h
    /\ ret' = 0
    /\ snap' = NoSnapshot
    /\ newFills' = <<>>
    /\ h' = engine_new(cfg, malloc_ok)
    /\ placed' = 0
    /\ fills' = <<>>

EngineFree ==
    /\ h # NULL
    /\ lastOp = "none"
    /\ lastOp' = "engine_free"
    /\ arg' = NoArg
    /\ pre' = h
    /\ ret' = 0
    /\ snap' = NoSnapshot
    /\ newFills' = <<>>
    /\ h' = NULL
    /\ placed' = 0
    /\ fills' = <<>>

EngineReset ==
    /\ lastOp = "none"
    /\ lastOp' = "engine_reset"
    /\ arg' = NoArg
    /\ pre' = h
    /\ ret' = 0
    /\ snap' = NoSnapshot
    /\ newFills' = <<>>
    /\ h' = engine_reset(h)
    /\ placed' = 0
    /\ fills' = <<>>

EngineStepTick(tick) ==
    \E r \in {engine_step_tick(h, tick)} :
        /\ Called("engine_step_tick", tick, r.ret, NoSnapshot, r.fills)
        /\ h' = r.h
        /\ UNCHANGED placed

StepBatch(b) ==
    \E r \in {step_batch(h, b)} :
        /\ Called("step_batch", b, r.ret, NoSnapshot, r.fills)
        /\ h' = r.h
        /\ UNCHANGED placed

EnginePlaceOrder(order) ==
    \E r \in {engine_place_order(h, order)} :
        /\ placed < MaxPlaced
        /\ Called("engine_place_order", order, r.ret, NoSnapshot, <<>>)
        /\ h' = r.h
        /\ placed' = IF r.ret = 0 THEN placed + 1 ELSE placed

EngineCancelOrder(order_id) ==
    \E r \in {engine_cancel_order(h, order_id)} :
        /\ Called("engine_cancel_order", [order_id |-> order_id], r.ret,
                  NoSnapshot, <<>>)
        /\ h' = r.h
        /\ UNCHANGED placed

EngineGetSnapshot ==
    /\ Called("engine_get_snapshot", NoArg, 0, engine_get_snapshot(h), <<>>)
    /\ UNCHANGED <<h, placed>>

\* The caller has looked at the result and turns to its next call.
Return ==
    /\ lastOp # "none"
    /\ lastOp' = "none"
    /\ arg' = NoArg
    /\ pre' = NULL
    /\ ret' = 0
    /\ snap' = NoSnapshot
    /\ newFills' = <<>>
    /\ UNCHANGED <<h, placed, fills>>

Next ==
    \/ \E cfg \in ConfigInputs \cup {NULL} : EngineNew(cfg, TRUE) /\ UNCHANGED <<h2, handles>>
    \/ \E cfg \in ConfigInputs : EngineNew(cfg, FALSE) /\ UNCHANGED <<h2, handles>>
    \/ EngineFree /\ UNCHANGED <<h2, handles>>
    \/ EngineReset /\ UNCHANGED <<h2, handles>>
    \/ \E tick \in TickInputs \cup {NULL} : EngineStepTick(tick) /\ UNCHANGED <<h2, handles>>
    \/ \E b \in BatchInputs : StepBatch(b) /\ UNCHANGED <<h2, handles>>
    \/ \E order \in OrderInputs \cup {NULL} : EnginePlaceOrder(order) /\ UNCHANGED <<h2, handles>>
    \/ \E order_id \in OrderIds : EngineCancelOrder(order_id) /\ UNCHANGED <<h2, handles>>
    \/ EngineGetSnapshot /\ UNCHANGED <<h2, handles>>
    \/ Return /\ UNCHANGED <<h2, handles>>

Spec == Init /\ [][Next]_vars


(***************************************************************************)
(* The same caller, handing over configurations and orders that the        *)
(* documented contract rejects: a tick size of zero, an order of quantity  *)
(* zero and a limit order at price zero.                                   *)
(***************************************************************************)
ConfigInputsAny == ConfigInputs \cup { Config(0, 0, 0, 100000, 0) }

OrderInputsAny ==
    { Order(1, ORDER_TYPE_MARKET, SIDE_BUY, MICRO, 0),
      Order(2, ORDER_TYPE_LIMIT, SIDE_BUY, 0, 105),
      Order(3, ORDER_TYPE_LIMIT, SIDE_SELL, MICRO, 0) }

NextAny ==
    \/ \E cfg \in ConfigInputsAny \cup {NULL} : EngineNew(cfg, TRUE) /\ UNCHANGED <<h2, handles>>
    \/ \E cfg \in ConfigInputsAny : EngineNew(cfg, FALSE) /\ UNCHANGED <<h2, handles>>
    \/ EngineFree /\ UNCHANGED <<h2, handles>>
    \/ EngineReset /\ UNCHANGED <<h2, handles>>
    \/ \E tick \in TickInputs \cup {NULL} : EngineStepTick(tick) /\ UNCHANGED <<h2, handles>>
    \/ \E b \in BatchInputs : StepBatch(b) /\ UNCHANGED <<h2, handles>>
    \/ \E order \in OrderInputsAny \cup {NULL} : EnginePlaceOrder(order) /\ UNCHANGED <<h2, handles>>
    \/ \E order_id \in OrderIds : EngineCancelOrder(order_id) /\ UNCHANGED <<h2, handles>>
    \/ EngineGetSnapshot /\ UNCHANGED <<h2, handles>>
    \/ Return /\ UNCHANGED <<h2, handles>>

SpecAny == Init /\ [][NextAny]_vars


(***************************************************************************)
(* Two handles, created from configurations that differ in one fee, and    *)
(* handed the same calls one after the other.                              *)
(***************************************************************************)
\* The configuration of the first handle with another maker fee, and with
\* another taker fee.
ConfigPairs ==
    { << Config(0, 10, 100, 100000, 1), Config(7, 10, 100, 100000, 1) >>,
      << Config(0, 10, 100, 100000, 1), Config(0, 30, 100, 100000, 1) >> }

NextPair ==
    \/ \E cp \in ConfigPairs :
          EngineNew(cp[1], TRUE) /\ h2' = engine_new(cp[2], TRUE)
          /\ UNCHANGED handles
    \/ EngineFree /\ h2' = NULL
          /\ UNCHANGED handles
    \/ EngineReset /\ h2' = engine_reset(h2)
          /\ UNCHANGED handles
    \/ \E tick \in TickInputs :
          EngineStepTick(tick) /\ h2' = engine_step_tick(h2, tick).h
          /\ UNCHANGED handles
    \/ \E order \in OrderInputs :
          EnginePlaceOrder(order) /\ h2' = engine_place_order(h2, order).h
          /\ UNCHANGED handles
    \/ \E order_id \in OrderIds :
          EngineCancelOrder(order_id) /\ h2' = engine_cancel_order(h2, order_id).h
          /\ UNCHANGED handles
    \/ EngineGetSnapshot /\ UNCHANGED <<h2, handles>>
    \/ Return /\ UNCHANGED <<h2, handles>>

SpecPair == Init /\ [][NextPair]_vars


(***************************************************************************)
(* Two handles of one configuration driven in lockstep, the second with    *)
(* every order quantity multiplied by ScaleK.                              *)
(***************************************************************************)
ScaleK == 3

\* order_t with its qty multiplied by ScaleK, every other field as it was.
ScaledOrder(order) == [order EXCEPT !.qty = ScaleK * order.qty]

NextScale ==
    \/ \E cfg \in ConfigInputs :
          EngineNew(cfg, TRUE) /\ h2' = engine_new(cfg, TRUE)
          /\ UNCHANGED handles
    \/ EngineFree /\ h2' = NULL
          /\ UNCHANGED handles
    \/ EngineReset /\ h2' = engine_reset(h2)
          /\ UNCHANGED handles
    \/ \E tick \in TickInputs :
          EngineStepTick(tick) /\ h2' = engine_step_tick(h2, tick).h
          /\ UNCHANGED handles
    \/ \E order \in OrderInputs :
          EnginePlaceOrder(order)
          /\ h2' = engine_place_order(h2, ScaledOrder(order)).h
          /\ UNCHANGED handles
    \/ \E order_id \in OrderIds :
          EngineCancelOrder(order_id) /\ h2' = engine_cancel_order(h2, order_id).h
          /\ UNCHANGED handles
    \/ EngineGetSnapshot /\ UNCHANGED <<h2, handles>>
    \/ Return /\ UNCHANGED <<h2, handles>>

SpecScale == Init /\ [][NextScale]_vars


(***************************************************************************)
(* Two handles of one configuration driven in lockstep, the second with    *)
(* ticks of the same time and price but of another quantity and side.      *)
(***************************************************************************)
\* Tick quantities: none, the quantity of the first run's ticks, and more
\* than any order asks for.
TickQtyInputs == {0, MICRO, 7 * MICRO}

\* The tick_event_t values that differ from tick in qty and side at most.
TickVariants(tick) ==
    { [tick EXCEPT !.qty = q, !.side = sd] :
          q \in TickQtyInputs, sd \in {SIDE_BUY, SIDE_SELL} }

NextFlow ==
    \/ \E cfg \in ConfigInputs :
          EngineNew(cfg, TRUE) /\ h2' = engine_new(cfg, TRUE)
          /\ UNCHANGED handles
    \/ EngineFree /\ h2' = NULL
          /\ UNCHANGED handles
    \/ EngineReset /\ h2' = engine_reset(h2)
          /\ UNCHANGED handles
    \/ \E tick \in TickInputs :
          \E variant \in TickVariants(tick) :
              EngineStepTick(tick) /\ h2' = engine_step_tick(h2, variant).h
              /\ UNCHANGED handles
    \/ \E order \in OrderInputs :
          EnginePlaceOrder(order) /\ h2' = engine_place_order(h2, order).h
          /\ UNCHANGED handles
    \/ \E order_id \in OrderIds :
          EngineCancelOrder(order_id) /\ h2' = engine_cancel_order(h2, order_id).h
          /\ UNCHANGED handles
    \/ EngineGetSnapshot /\ UNCHANGED <<h2, handles>>
    \/ Return /\ UNCHANGED <<h2, handles>>

SpecFlow == Init /\ [][NextFlow]_vars


(***************************************************************************)
(* Two callers with a handle each, calling in any interleaving.  The       *)
(* memory engine_new allocates from has two blocks: h is the struct at     *)
(* address 1 and h2 the struct at address 2, NULL while the block is free. *)
(* handles[c] is the pointer caller c holds, 0 while it holds none.  Every *)
(* function reads and writes the struct its argument h points to and       *)
(* nothing else: engine.c has no file-scope variable.                      *)
(***************************************************************************)
Callers == {1, 2}

\* A malloc that hands out the same block every time.
malloc_same_block(mem) == 1

\* malloc(sizeof(engine_handle_t)): the address of a block that is free.
malloc(mem) == IF mem[1] = NULL THEN 1 ELSE 2

\* *p
Deref(p) == IF p = 1 THEN h ELSE h2

\* *p = x, the other block left alone.
Store(p, x) ==
    IF p = 1 THEN h' = x /\ UNCHANGED h2
             ELSE h2' = x /\ UNCHANGED h

\* The first caller's configuration and the second's.
TwoConfigs == << Config(0, 10, 100, 100000, 1), Config(0, 10, 0, 50000, 1) >>

TwoOrderInputs ==
    { Order(1, ORDER_TYPE_MARKET, SIDE_BUY, MICRO, 0),
      Order(2, ORDER_TYPE_LIMIT, SIDE_SELL, MICRO, 110) }

\* What a call of caller c records: the caller, the argument, and the
\* struct its handle pointed to before the call.
CalledOn(c, op, a, r, s, f) ==
    /\ lastOp = "none"
    /\ lastOp' = op
    /\ arg' = [handle |-> c, arg |-> a]
    /\ pre' = Deref(handles[c])
    /\ ret' = r
    /\ snap' = s
    /\ newFills' = f
    /\ UNCHANGED fills

EngineNewOn(c) ==
    /\ handles[c] = 0
    /\ \E p \in {malloc(<<h, h2>>)} :
          /\ lastOp = "none"
          /\ lastOp' = "engine_new"
          /\ arg' = [handle |-> c, arg |-> TwoConfigs[c]]
          /\ pre' = NULL
          /\ ret' = 0
          /\ snap' = NoSnapshot
          /\ newFills' = <<>>
          /\ Store(p, engine_new(TwoConfigs[c], TRUE))
          /\ handles' = [handles EXCEPT ![c] = p]
    /\ UNCHANGED <<placed, fills>>

EngineFreeOn(c) ==
    /\ handles[c] # 0
    /\ CalledOn(c, "engine_free", NoArg, 0, NoSnapshot, <<>>)
    /\ Store(handles[c], NULL)
    /\ handles' = [handles EXCEPT ![c] = 0]
    /\ UNCHANGED placed

EngineResetOn(c) ==
    /\ handles[c] # 0
    /\ CalledOn(c, "engine_reset", NoArg, 0, NoSnapshot, <<>>)
    /\ Store(handles[c], engine_reset(Deref(handles[c])))
    /\ UNCHANGED <<handles, placed>>

EngineStepTickOn(c, tick) ==
    /\ handles[c] # 0
    /\ \E r \in {engine_step_tick(Deref(handles[c]), tick)} :
          /\ CalledOn(c, "engine_step_tick", tick, r.ret, NoSnapshot, r.fills)
          /\ Store(handles[c], r.h)
    /\ UNCHANGED <<handles, placed>>

EnginePlaceOrderOn(c, order) ==
    /\ handles[c] # 0
    /\ placed < MaxPlaced
    /\ \E r \in {engine_place_order(Deref(handles[c]), order)} :
          /\ CalledOn(c, "engine_place_order", order, r.ret, NoSnapshot, <<>>)
          /\ Store(handles[c], r.h)
          /\ placed' = IF r.ret = 0 THEN placed + 1 ELSE placed
    /\ UNCHANGED handles

EngineCancelOrderOn(c, order_id) ==
    /\ handles[c] # 0
    /\ \E r \in {engine_cancel_order(Deref(handles[c]), order_id)} :
          /\ CalledOn(c, "engine_cancel_order", [order_id |-> order_id], r.ret,
                      NoSnapshot, <<>>)
          /\ Store(handles[c], r.h)
    /\ UNCHANGED <<handles, placed>>

EngineGetSnapshotOn(c) ==
    /\ handles[c] # 0
    /\ CalledOn(c, "engine_get_snapshot", NoArg, 0,
                engine_get_snapshot(Deref(handles[c])), <<>>)
    /\ UNCHANGED <<h, h2, handles, placed>>

NextTwo ==
    \/ \E c \in Callers : EngineNewOn(c)
    \/ \E c \in Callers : EngineFreeOn(c)
    \/ \E c \in Callers : EngineResetOn(c)
    \/ \E c \in Callers, tick \in TickInputs : EngineStepTickOn(c, tick)
    \/ \E c \in Callers, order \in TwoOrderInputs : EnginePlaceOrderOn(c, order)
    \/ \E c \in Callers, order_id \in OrderIds : EngineCancelOrderOn(c, order_id)
    \/ \E c \in Callers : EngineGetSnapshotOn(c)
    \/ Return /\ UNCHANGED <<h2, handles>>

SpecTwo == Init /\ [][NextTwo]_vars


(***************************************************************************)
(* The handle as the Rust wrapper (crates/ag-core/src/lib.rs) shows it:    *)
(* quantities go in in real units and are scaled to micro-units on the way *)
(* to engine_place_order, and the position of a snapshot is scaled back on *)
(* the way out.                                                            *)
(***************************************************************************)
\* Quantities in real units, each a whole number of micro-units.
ApiQtyInputs == { Rat(1, 2), Rat(3, 2) }

\* let qty_i64 = (qty * 1000000.0) as i64
ApiOrder(order_id, type, side, qty, price_tick) ==
    Order(order_id, type, side, ScaleQty(qty), price_tick)

ApiOrderInputs ==
    { ApiOrder(1, ORDER_TYPE_MARKET, SIDE_BUY, qty, 0) : qty \in ApiQtyInputs }
    \cup { ApiOrder(2, ORDER_TYPE_MARKET, SIDE_SELL, qty, 0) : qty \in ApiQtyInputs }
    \cup { ApiOrder(3, ORDER_TYPE_LIMIT, SIDE_SELL, Rat(3, 2), 110) }

GetSnapshot ==
    /\ Called("get_snapshot", NoArg, 0, get_snapshot(h), <<>>)
    /\ UNCHANGED <<h, placed>>

NextApi ==
    \/ \E cfg \in ConfigInputs : EngineNew(cfg, TRUE) /\ UNCHANGED <<h2, handles>>
    \/ EngineReset /\ UNCHANGED <<h2, handles>>
    \/ \E tick \in TickInputs : EngineStepTick(tick) /\ UNCHANGED <<h2, handles>>
    \/ \E order \in ApiOrderInputs :
          EnginePlaceOrder(order) /\ UNCHANGED <<h2, handles>>
    \/ GetSnapshot /\ UNCHANGED <<h2, handles>>
    \/ Return /\ UNCHANGED <<h2, handles>>

SpecApi == Init /\ [][NextApi]_vars


(***************************************************************************)
(* One handle, with or without a spread: the calls that move the price a   *)
(* position is marked at.                                                  *)
(***************************************************************************)
\* No spread with a tick size of two, and a spread of 100 bps with a tick
\* size of one.
MarkConfigInputs == { Config(0, 10, 0, 100000, 2), Config(0, 10, 100, 100000, 1) }

NextMark ==
    \/ \E cfg \in MarkConfigInputs : EngineNew(cfg, TRUE) /\ UNCHANGED <<h2, handles>>
    \/ EngineReset /\ UNCHANGED <<h2, handles>>
    \/ \E tick \in TickInputs : EngineStepTick(tick) /\ UNCHANGED <<h2, handles>>
    \/ \E order \in OrderInputs :
          EnginePlaceOrder(order) /\ UNCHANGED <<h2, handles>>
    \/ \E order_id \in OrderIds :
          EngineCancelOrder(order_id) /\ UNCHANGED <<h2, handles>>
    \/ EngineGetSnapshot /\ UNCHANGED <<h2, handles>>
    \/ Return /\ UNCHANGED <<h2, handles>>

SpecMark == Init /\ [][NextMark]_vars


(***************************************************************************)
(* apply_spread on its own: a handle of some spread, and the function      *)
(* applied to price ticks of either sign and to both sides.                *)
(***************************************************************************)
\* Spreads in basis points: none, one too small to move a price below
\* 10000 by a whole tick, and three larger ones.
SpreadInputs == {0, 1, 50, 100, 250}

PriceTickInputs == (0 - MaxSpreadTick)..MaxSpreadTick

InitSpread ==
    /\ h \in { FreshHandle(Config(0, 10, s, 100000, 1)) : s \in SpreadInputs }
    /\ placed = 0
    /\ fills = <<>>
    /\ lastOp = "none"
    /\ arg = NoArg
    /\ pre = NULL
    /\ ret = 0
    /\ snap = NoSnapshot
    /\ newFills = <<>>
    /\ h2 = NULL
    /\ handles = <<0, 0>>

\* ret is the int64_t apply_spread returns.
ApplySpread(price_tick, side) ==
    /\ Called("apply_spread", [price_tick |-> price_tick, side |-> side],
              apply_spread(h, price_tick, side), NoSnapshot, <<>>)
    /\ UNCHANGED <<h, placed>>

NextSpread ==
    \/ \E price_tick \in PriceTickInputs, side \in {SIDE_BUY, SIDE_SELL} :
          ApplySpread(price_tick, side) /\ UNCHANGED <<h2, handles>>
    \/ Return /\ UNCHANGED <<h2, handles>>

SpecSpread == InitSpread /\ [][NextSpread]_vars


(***************************************************************************)
(* execute_fill on its own: a fresh handle, and fills of either side, of   *)
(* several quantities and at several fill prices, one after the other.     *)
(***************************************************************************)
\* A tick size of one with a taker fee of 10 bps, a tick size of two with a
\* taker fee of 25 bps, and a configuration without fees.
FillConfigInputs ==
    { Config(0, 10, 0, 100000, 1), Config(0, 25, 0, 100000, 2),
      Config(0, 0, 0, 100000, 1) }

\* Quantities of 1.0, 3.0 and 6.0 in micro-units.
FillQtyInputs == { MICRO, 3 * MICRO, 6 * MICRO }

FillPriceInputs == { 100, 120, 130 }

FillOrder(side, qty) == Order(1, ORDER_TYPE_MARKET, side, qty, 0)

InitFill ==
    /\ h \in { FreshHandle(cfg) : cfg \in FillConfigInputs }
    /\ placed = 0
    /\ fills = <<>>
    /\ lastOp = "none"
    /\ arg = NoArg
    /\ pre = NULL
    /\ ret = 0
    /\ snap = NoSnapshot
    /\ newFills = <<>>
    /\ h2 = NULL
    /\ handles = <<0, 0>>

\* placed counts the fills executed.
ExecuteFill(order, fill_price_tick) ==
    /\ placed < MaxFills
    /\ Abs(h.position) + order.qty <= MaxPositionUnits * MICRO
    /\ Called("execute_fill",
              [order |-> order, fill_price_tick |-> fill_price_tick], 0,
              NoSnapshot,
              << [order |-> order, fill_price_tick |-> fill_price_tick] >>)
    /\ h' = execute_fill(h, order, fill_price_tick)
    /\ placed' = placed + 1

NextFill ==
    \/ \E side \in {SIDE_BUY, SIDE_SELL}, qty \in FillQtyInputs,
          fill_price_tick \in FillPriceInputs :
          ExecuteFill(FillOrder(side, qty), fill_price_tick) /\ UNCHANGED <<h2, handles>>
    \/ Return /\ UNCHANGED <<h2, handles>>

SpecFill == InitFill /\ [][NextFill]_vars


(***************************************************************************)
(* Properties.                                                             *)
(***************************************************************************)
IsHandle(x) == x # NULL

\* The account fields of a handle.
Account(x) ==
    [cash |-> x.cash, position |-> x.position,
     avg_entry_price |-> x.avg_entry_price, realized_pnl |-> x.realized_pnl]

IsLive(e) == e.active # 0

\* The live orders of a handle, in the order they were placed.
LiveOrders(x) ==
    [i \in 1..Len(SelectSeq(x.orders, IsLive)) |->
        SelectSeq(x.orders, IsLive)[i].order]

\* Whether a live order of the handle has the id.
HasLiveId(x, id) == \E i \in 1..Len(LiveOrders(x)) : LiveOrders(x)[i].order_id = id

\* A batch step_batch accepts: four arrays of one length, every side 0 or 1.
ValidBatch(b) ==
    /\ Len(b.price_ticks) = Len(b.timestamps)
    /\ Len(b.qtys) = Len(b.timestamps)
    /\ Len(b.sides) = Len(b.timestamps)
    /\ \A i \in 1..Len(b.sides) : b.sides[i] \in {0, 1}

\* The tick a caller hands to step_tick for index i of a batch.
TickOfIndex(b, i) ==
    [ts_ms |-> b.timestamps[i],
     price_tick |-> b.price_ticks[i],
     qty |-> ScaleQty(b.qtys[i]),
     side |-> IF b.sides[i] = 0 THEN SIDE_BUY ELSE SIDE_SELL]

\* The handle after step_tick has been called on the first n ticks of a
\* batch, one call per tick.
RECURSIVE TickByTick(_, _, _)
TickByTick(h0, b, n) ==
    IF n = 0 THEN h0
    ELSE engine_step_tick(TickByTick(h0, b, n - 1), TickOfIndex(b, n)).h

\* C1: step_batch on a valid batch of N ticks succeeds and leaves the handle
\* (account state, open orders) and its snapshot exactly as N successive
\* step_tick calls on the same ticks, in index order, leave them.
C1_BatchEqualsTickByTick ==
    (lastOp = "step_batch" /\ IsHandle(pre) /\ ValidBatch(arg)) =>
        \E ref \in {TickByTick(pre, arg, Len(arg.timestamps))} :
            /\ ret = 0
            /\ h = ref
            /\ engine_get_snapshot(h) = engine_get_snapshot(ref)

\* A batch of at least two ticks that executed at least two fills.
C1_Witness ==
    /\ lastOp = "step_batch"
    /\ ret = 0
    /\ Len(arg.timestamps) >= 2
    /\ Len(newFills) >= 2

\* C2: a place_order, cancel_order, step_tick or step_batch that returns a
\* failure leaves the handle (account state and open orders) exactly as it
\* was before the call, and has executed no fill.
C2_FailureLeavesState ==
    (lastOp \in {"engine_place_order", "engine_cancel_order",
                 "engine_step_tick", "step_batch"} /\ ret # 0) =>
        (h = pre /\ newFills = <<>>)

\* A cancel_order that failed on a handle holding orders.
C2_Witness ==
    /\ lastOp = "engine_cancel_order"
    /\ ret # 0
    /\ IsHandle(pre)
    /\ Len(pre.orders) > 0

\* C3: the open-order array never holds more than its capacity, and a
\* place_order on a handle whose array is at capacity returns -2 (order book
\* full) and leaves the handle as it was.
C3_OrderSetBounded ==
    /\ IsHandle(h) => Len(LiveOrders(h)) <= MAX_OPEN_ORDERS
    /\ IsHandle(h) => Len(h.orders) <= MAX_OPEN_ORDERS
    /\ (lastOp = "engine_place_order" /\ IsHandle(pre) /\ arg # NULL
        /\ Len(LiveOrders(pre)) >= MAX_OPEN_ORDERS) => (ret = -2 /\ h = pre)

\* A place_order that was refused on a full array.
C3_Witness ==
    /\ lastOp = "engine_place_order"
    /\ ret = -2
    /\ Len(LiveOrders(pre)) = MAX_OPEN_ORDERS

\* C4: a place_order whose order id equals the id of a live order fails and
\* leaves the handle as it was, so that the ids of the live orders are
\* pairwise distinct.
C4_DuplicateIdRejected ==
    /\ (lastOp = "engine_place_order" /\ IsHandle(pre) /\ arg # NULL
        /\ HasLiveId(pre, arg.order_id)) => (ret # 0 /\ h = pre)
    /\ IsHandle(h) =>
         \A i, j \in 1..Len(LiveOrders(h)) :
            LiveOrders(h)[i].order_id = LiveOrders(h)[j].order_id => i = j

\* C5: a place_order whose quantity is not positive, or whose type is limit
\* and whose price_tick is not positive, fails and leaves the handle as it
\* was.
C5_InvalidOrderRejected ==
    (lastOp = "engine_place_order" /\ IsHandle(pre) /\ arg # NULL
     /\ (arg.qty <= 0 \/ (arg.type = ORDER_TYPE_LIMIT /\ arg.price_tick <= 0)))
        => (ret # 0 /\ h = pre)

\* C6: engine_new on a configuration whose tick_size is not positive
\* returns no handle.
C6_TickSizeRejected ==
    (lastOp = "engine_new" /\ arg.cfg # NULL /\ RLe(arg.cfg.tick_size, D(0)))
        => h = NULL

\* The sequence without its first element of the given id.
RECURSIVE WithoutFirstId(_, _)
WithoutFirstId(os, id) ==
    IF os = <<>> THEN <<>>
    ELSE IF Head(os).order_id = id THEN Tail(os)
    ELSE <<Head(os)>> \o WithoutFirstId(Tail(os), id)

\* C7: cancel_order returns 0 exactly when a live order of the handle has
\* the id, and then that order (the earliest placed of that id) is no longer
\* live and the others are; otherwise, whether the id was never placed, was
\* cancelled or was filled, it returns -1 (not found) and changes nothing.
C7_CancelIffLive ==
    (lastOp = "engine_cancel_order" /\ IsHandle(pre)) =>
        /\ (ret = 0) <=> HasLiveId(pre, arg.order_id)
        /\ ret = 0 => LiveOrders(h) = WithoutFirstId(LiveOrders(pre), arg.order_id)
        /\ ret = 0 => Account(h) = Account(pre)
        /\ ret # 0 => (ret = -1 /\ h = pre)

\* A cancel_order that found nothing for an id whose order was cancelled
\* before and is still in its slot.
C7_Witness ==
    /\ lastOp = "engine_cancel_order"
    /\ ret = -1
    /\ IsHandle(pre)
    /\ \E i \in 1..Len(pre.orders) :
          pre.orders[i].active = 0 /\ pre.orders[i].order.order_id = arg.order_id

\* The handle with the slots of its cancelled orders taken out.
OnlyLive(x) == [x EXCEPT !.orders = SelectSeq(x.orders, IsLive)]

\* C8: a step_tick leaves the handle, and executes the fills, that it would
\* on the handle without its cancelled orders: a cancelled order is not
\* filled, whatever the tick price; and after the step_tick no cancelled
\* order is in the array.
C8_CancelledNeverFilled ==
    (lastOp = "engine_step_tick" /\ ret = 0) =>
        /\ h = engine_step_tick(OnlyLive(pre), arg).h
        /\ newFills = engine_step_tick(OnlyLive(pre), arg).fills
        /\ \A i \in 1..Len(h.orders) : h.orders[i].active # 0

\* A step_tick on a handle that holds a cancelled order whose fill condition
\* the tick meets.
C8_Witness ==
    /\ lastOp = "engine_step_tick"
    /\ ret = 0
    /\ \E i \in 1..Len(pre.orders) :
          pre.orders[i].active = 0 /\ should_fill_order(pre.orders[i].order, arg)

\* The fill condition: a market order always; a buy limit when the tick price
\* is at or below its limit; a sell limit when it is at or above.
Eligible(o, t) ==
    \/ o.type = ORDER_TYPE_MARKET
    \/ o.type = ORDER_TYPE_LIMIT /\ o.side = SIDE_BUY /\ t.price_tick <= o.price_tick
    \/ o.type = ORDER_TYPE_LIMIT /\ o.side = SIDE_SELL /\ t.price_tick >= o.price_tick

\* The live orders of x the tick t fills, in the order they were placed.
EligibleOrders(x, t) ==
    LET Test(o) == Eligible(o, t) IN SelectSeq(LiveOrders(x), Test)

\* C9: a step_tick fills exactly the live orders that meet the fill
\* condition, and a live order that does not meet it stays live, unchanged
\* and in its place among the others.
C9_FillIffEligible ==
    (lastOp = "engine_step_tick" /\ ret = 0) =>
        /\ [i \in 1..Len(newFills) |-> newFills[i].order] = EligibleOrders(pre, arg)
        /\ LET Stays(o) == ~Eligible(o, arg)
           IN  LiveOrders(h) = SelectSeq(LiveOrders(pre), Stays)

\* A step_tick at the limit price of a live sell limit, or one that fills one
\* live limit order and leaves another.
C9_Witness ==
    /\ lastOp = "engine_step_tick"
    /\ ret = 0
    /\ \E i \in 1..Len(LiveOrders(pre)) :
          /\ LiveOrders(pre)[i].type = ORDER_TYPE_LIMIT
          /\ LiveOrders(pre)[i].price_tick = arg.price_tick
    /\ Len(newFills) >= 1

\* The handle after the first n orders of os have been filled at tick t, one
\* after the other, each on the account the one before it left.
RECURSIVE FilledInTurn(_, _, _, _)
FilledInTurn(x, os, t, n) ==
    IF n = 0 THEN x
    ELSE LET y == FilledInTurn(x, os, t, n - 1)
         IN  execute_fill(y, os[n], FillPriceTick(y, os[n], t))

Reverse(os) == [i \in 1..Len(os) |-> os[Len(os) + 1 - i]]

\* C10: the fills of one step_tick are executed in the order the orders were
\* placed, each on the account state the fill before it left: the fills
\* recorded are the eligible live orders in placement order, and the account
\* after the tick is the account after filling them one after the other.
C10_FillsInInsertionOrder ==
    (lastOp = "engine_step_tick" /\ ret = 0) =>
        \E os \in {EligibleOrders(pre, arg)} :
            /\ Len(newFills) = Len(os)
            /\ \A i \in 1..Len(os) : newFills[i].order = os[i]
            /\ Account(h) = Account(FilledInTurn(pre, os, arg, Len(os)))

\* A step_tick with two fills whose order matters: filled the other way
\* round they leave another account.
C10_Witness ==
    /\ lastOp = "engine_step_tick"
    /\ ret = 0
    /\ Len(newFills) >= 2
    /\ \E os \in {EligibleOrders(pre, arg)} :
          Account(FilledInTurn(pre, Reverse(os), arg, Len(os))) # Account(h)

\* Whether s is t with some of its elements taken out, the others in place.
RECURSIVE IsSubseq(_, _)
IsSubseq(s, t) ==
    IF s = <<>> THEN TRUE
    ELSE IF t = <<>> THEN FALSE
    ELSE IF Head(s) = Head(t) THEN IsSubseq(Tail(s), Tail(t))
    ELSE IsSubseq(s, Tail(t))

\* C11: after every step_tick (and every batch of at least one tick) no slot
\* of the open-order array is inactive, and the slots are slots of the array
\* before the call, with the fields they had and in the order they had.
C11_CompactionKeepsOrder ==
    ((lastOp = "engine_step_tick" \/ (lastOp = "step_batch" /\ Len(arg.timestamps) >= 1))
     /\ ret = 0) =>
        /\ \A i \in 1..Len(h.orders) : h.orders[i].active # 0
        /\ IsSubseq(h.orders, SelectSeq(pre.orders, IsLive))
        /\ Len(h.orders) = Len(SelectSeq(pre.orders, IsLive)) - Len(newFills)

\* A step_tick that drops a cancelled first slot and moves the order behind
\* it down into its place.
C11_Witness ==
    /\ lastOp = "engine_step_tick"
    /\ ret = 0
    /\ Len(pre.orders) = 2
    /\ pre.orders[1].active = 0
    /\ h.orders = <<pre.orders[2]>>

\* C12: place_order executes no fill and leaves the account as it was; the
\* order it accepts goes, live, behind the orders of the array.  A step_tick
\* fills only orders that were live in the array when it was called, and it
\* fills every live market order among them: none is left after it.
C12_EligibleAtNextTick ==
    /\ (lastOp = "engine_place_order" /\ IsHandle(pre)) =>
          /\ newFills = <<>>
          /\ Account(h) = Account(pre)
          /\ ret = 0 => h.orders = Append(pre.orders, [order |-> arg, active |-> 1])
    /\ (lastOp = "engine_step_tick" /\ ret = 0) =>
          /\ \A k \in 1..Len(newFills) :
                \E i \in 1..Len(pre.orders) :
                    pre.orders[i] = [order |-> newFills[k].order, active |-> 1]
          /\ \A i \in 1..Len(pre.orders) :
                (IsLive(pre.orders[i])
                 /\ pre.orders[i].order.type = ORDER_TYPE_MARKET) =>
                    \E k \in 1..Len(newFills) : newFills[k].order = pre.orders[i].order
          /\ \A j \in 1..Len(h.orders) : h.orders[j].order.type # ORDER_TYPE_MARKET

\* A step_tick, not the first on its handle, that fills a market order placed
\* since the tick before it.
C12_Witness ==
    /\ lastOp = "engine_step_tick"
    /\ ret = 0
    /\ pre.current_ts_ms # 0
    /\ \E i \in 1..Len(pre.orders) :
          /\ IsLive(pre.orders[i])
          /\ pre.orders[i].order.type = ORDER_TYPE_MARKET
          /\ \E k \in 1..Len(newFills) : newFills[k].order = pre.orders[i].order

\* ceil(a / b) of integers a >= 0 and b > 0.
CeilDiv(a, b) == (a + b - 1) \div b

\* ceil(|price_tick| * spread_bps / 10000), the spread offset.
SpreadOffset(cfg, price_tick) ==
    CeilDiv(Abs(price_tick) * cfg.spread_bps.n, cfg.spread_bps.d * BPS)

\* C13: for every price tick and every spread >= 0, apply_spread returns the
\* price tick plus the offset ceil(|price_tick| * spread_bps / 10000) on a
\* buy and minus it on a sell; the offset is >= 0, so a buy never fills below
\* the price tick and a sell never above.  With a spread of 100 bps, tick 100
\* gives 101 on a buy and 99 on a sell.
C13_SpreadNeverTightens ==
    /\ lastOp = "apply_spread" =>
          \E off \in {SpreadOffset(pre.config, arg.price_tick)} :
              /\ off >= 0
              /\ arg.side = SIDE_BUY =>
                    (ret = arg.price_tick + off /\ ret >= arg.price_tick)
              /\ arg.side = SIDE_SELL =>
                    (ret = arg.price_tick - off /\ ret <= arg.price_tick)
    /\ apply_spread(FreshHandle(Config(0, 0, 100, 100000, 1)), 100, SIDE_BUY) = 101
    /\ apply_spread(FreshHandle(Config(0, 0, 100, 100000, 1)), 100, SIDE_SELL) = 99

\* The same for price ticks that are not negative.
C13_NonNegativeTicks ==
    (lastOp = "apply_spread" /\ arg.price_tick >= 0) =>
        \E off \in {SpreadOffset(pre.config, arg.price_tick)} :
            /\ off >= 0
            /\ arg.side = SIDE_BUY => ret = arg.price_tick + off
            /\ arg.side = SIDE_SELL => ret = arg.price_tick - off

\* A tick of the given time and price.
TickAt(ts_ms, price_tick) ==
    [ts_ms |-> ts_ms, price_tick |-> price_tick, qty |-> MICRO, side |-> SIDE_BUY]

\* The price an order fills at: the tick price for a market order, its own
\* limit price for a limit order, moved by the spread offset against it.
SpreadAdjusted(cfg, order, tick) ==
    LET base == IF order.type = ORDER_TYPE_MARKET
                THEN tick.price_tick ELSE order.price_tick
    IN  IF order.side = SIDE_BUY
        THEN base + SpreadOffset(cfg, base)
        ELSE base - SpreadOffset(cfg, base)

\* Without spread, a buy limit at 100 is not filled at tick 101, is filled at
\* 100 at tick 100, and is not filled again at tick 99.
LimitBuyAt100 ==
    LET o  == Order(1, ORDER_TYPE_LIMIT, SIDE_BUY, MICRO, 100)
        h0 == engine_place_order(FreshHandle(Config(0, 0, 0, 100000, 1)), o).h
        r1 == engine_step_tick(h0, TickAt(1, 101))
        r2 == engine_step_tick(r1.h, TickAt(2, 100))
        r3 == engine_step_tick(r2.h, TickAt(3, 99))
    IN  /\ r1.fills = <<>>
        /\ r2.fills = << [order |-> o, fill_price_tick |-> 100] >>
        /\ r3.fills = <<>>

\* C14: a market order fills at the spread-adjusted price of the tick, a
\* limit order at its spread-adjusted limit price, however far the tick price
\* is beyond the limit; and the buy limit at 100 without spread fills once, at
\* 100, at the tick of price 100.
C14_FillPrice ==
    /\ (lastOp = "engine_step_tick" /\ ret = 0) =>
          \A k \in 1..Len(newFills) :
              newFills[k].fill_price_tick =
                  SpreadAdjusted(pre.config, newFills[k].order, arg)
    /\ LimitBuyAt100

\* A step_tick that fills a limit order at a tick price beyond its limit.
C14_Witness ==
    /\ lastOp = "engine_step_tick"
    /\ ret = 0
    /\ \E k \in 1..Len(newFills) :
          /\ newFills[k].order.type = ORDER_TYPE_LIMIT
          /\ newFills[k].order.price_tick # arg.price_tick

\* N = p_t * tick_size * q / 1,000,000, the notional of a fill of q
\* micro-units at fill tick p_t.
Notional(cfg, q, p_t) ==
    RMul(Rat(q, MICRO), RMul(cfg.tick_size, D(p_t)))

\* fee = N * taker_fee_bps / 10000.
TakerFee(cfg, q, p_t) ==
    RDiv(RMul(Notional(cfg, q, p_t), cfg.taker_fee_bps), D(BPS))

\* What a fill adds to cash: -(N + fee) on a buy, +(N - fee) on a sell.
CashDelta(cfg, side, q, p_t) ==
    IF side = SIDE_BUY
    THEN RNeg(RAdd(Notional(cfg, q, p_t), TakerFee(cfg, q, p_t)))
    ELSE RSub(Notional(cfg, q, p_t), TakerFee(cfg, q, p_t))

\* The sum of what the first n fills of fs add to cash.
RECURSIVE SumCashDelta(_, _, _)
SumCashDelta(cfg, fs, n) ==
    IF n = 0 THEN D(0)
    ELSE RAdd(SumCashDelta(cfg, fs, n - 1),
              CashDelta(cfg, fs[n].order.side, fs[n].order.qty,
                        fs[n].fill_price_tick))

\* C15: a call changes cash by the sum, over the fills it executed, of
\* -(N + fee) for a buy and +(N - fee) for a sell, with N = p_t * tick_size *
\* q / 1,000,000 and fee = N * taker_fee_bps / 10000, whatever the position
\* before each fill; place_order, cancel_order, get_snapshot and every call
\* without a fill leave cash as it was.
C15_CashPerFill ==
    (IsHandle(pre) /\ IsHandle(h)
     /\ lastOp \in {"engine_step_tick", "step_batch", "engine_place_order",
                    "engine_cancel_order", "engine_get_snapshot"}) =>
        /\ h.cash = RAdd(pre.cash, SumCashDelta(pre.config, newFills, Len(newFills)))
        /\ newFills = <<>> => h.cash = pre.cash

\* A step_tick with one fill that takes the position from long to short.
C15_Witness ==
    /\ lastOp = "engine_step_tick"
    /\ ret = 0
    /\ Len(newFills) = 1
    /\ pre.position > 0
    /\ h.position < 0

\* Whether two configurations differ in maker_fee_bps and in nothing else.
OnlyMakerFeeDiffers(c1, c2) ==
    /\ c1.maker_fee_bps # c2.maker_fee_bps
    /\ [c1 EXCEPT !.maker_fee_bps = c2.maker_fee_bps] = c2

\* Whether two configurations differ in taker_fee_bps and in nothing else.
OnlyTakerFeeDiffers(c1, c2) ==
    /\ c1.taker_fee_bps # c2.taker_fee_bps
    /\ [c1 EXCEPT !.taker_fee_bps = c2.taker_fee_bps] = c2

\* C16: two handles whose configurations differ only in maker_fee_bps and
\* that were handed the same calls are equal in every field but the
\* configuration, and their snapshots are equal.
C16_MakerFeeUnused ==
    (IsHandle(h) /\ IsHandle(h2) /\ OnlyMakerFeeDiffers(h.config, h2.config)) =>
        /\ [h EXCEPT !.config = h2.config] = h2
        /\ engine_get_snapshot(h) = engine_get_snapshot(h2)

\* Two such handles after a tick that filled a limit order.
C16_Witness ==
    /\ IsHandle(h) /\ IsHandle(h2)
    /\ OnlyMakerFeeDiffers(h.config, h2.config)
    /\ lastOp = "engine_step_tick"
    /\ \E k \in 1..Len(newFills) : newFills[k].order.type = ORDER_TYPE_LIMIT

\* The sum of the fees a configuration charges on the first n fills of fs.
RECURSIVE SumFees(_, _, _)
SumFees(cfg, fs, n) ==
    IF n = 0 THEN D(0)
    ELSE RAdd(SumFees(cfg, fs, n - 1),
              TakerFee(cfg, fs[n].order.qty, fs[n].fill_price_tick))

\* With a taker fee of 10 bps and no spread, buying 1.0 and selling 1.0 at
\* tick 100 leaves realized_pnl = 0 and cash = initial_cash - 0.2.
BuySellAt100 ==
    LET cfg == Config(0, 10, 0, 100000, 1)
        h0 == engine_place_order(FreshHandle(cfg),
                  Order(1, ORDER_TYPE_MARKET, SIDE_BUY, MICRO, 0)).h
        h1 == engine_step_tick(h0, TickAt(1, 100)).h
        h3 == engine_place_order(h1,
                  Order(2, ORDER_TYPE_MARKET, SIDE_SELL, MICRO, 0)).h
        h4 == engine_step_tick(h3, TickAt(2, 100)).h
    IN  /\ h4.realized_pnl = D(0)
        /\ h4.position = 0
        /\ h4.cash = RSub(cfg.initial_cash, Rat(2, 10))

\* C17: two handles whose configurations differ only in taker_fee_bps and
\* that were handed the same calls have the same position, avg_entry_price,
\* realized_pnl and open orders, and the cash of the first exceeds the cash
\* of the second by the fees the second was charged on the fills so far less
\* the fees the first was charged; and the buy and sell of 1.0 at tick 100
\* with a taker fee of 10 bps leaves realized_pnl = 0 and cash =
\* initial_cash - 0.2.
C17_FeeIsolation ==
    /\ (IsHandle(h) /\ IsHandle(h2) /\ OnlyTakerFeeDiffers(h.config, h2.config)) =>
          /\ h.position = h2.position
          /\ h.avg_entry_price = h2.avg_entry_price
          /\ h.realized_pnl = h2.realized_pnl
          /\ h.orders = h2.orders
          /\ RSub(h.cash, h2.cash) =
                RSub(SumFees(h2.config, fills, Len(fills)),
                     SumFees(h.config, fills, Len(fills)))
    /\ BuySellAt100

\* Two such handles after a fill that reduced or closed a position, on which
\* they were charged different fees.
C17_Witness ==
    /\ IsHandle(h) /\ IsHandle(h2)
    /\ OnlyTakerFeeDiffers(h.config, h2.config)
    /\ lastOp = "engine_step_tick"
    /\ newFills # <<>>
    /\ h.realized_pnl # pre.realized_pnl
    /\ h.cash # h2.cash

\* Whether the fill the caller is looking at added to a position, reduced
\* one without crossing zero, or crossed zero.
FillAdds ==
    /\ lastOp = "execute_fill"
    /\ \/ pre.position > 0 /\ arg.order.side = SIDE_BUY
       \/ pre.position < 0 /\ arg.order.side = SIDE_SELL

FillReduces ==
    /\ lastOp = "execute_fill"
    /\ \/ pre.position > 0 /\ arg.order.side = SIDE_SELL
       \/ pre.position < 0 /\ arg.order.side = SIDE_BUY
    /\ arg.order.qty <= Abs(pre.position)

FillFlips ==
    /\ lastOp = "execute_fill"
    /\ \/ pre.position > 0 /\ arg.order.side = SIDE_SELL
       \/ pre.position < 0 /\ arg.order.side = SIDE_BUY
    /\ arg.order.qty > Abs(pre.position)

\* (|old| * old_avg + q * p_t) / (|old| + q)
WeightedEntry(old, old_avg, q, p_t) ==
    RDiv(RAdd(RMul(D(Abs(old)), old_avg), D(q * p_t)), D(Abs(old) + q))

\* From flat, a buy of 1.0 at tick 100 and a buy of 3.0 at tick 120 give
\* position 4.0 and avg_entry_price 115.
TwoBuys ==
    LET h0 == FreshHandle(Config(0, 0, 0, 100000, 1))
        h1 == execute_fill(h0, FillOrder(SIDE_BUY, MICRO), 100)
    IN  execute_fill(h1, FillOrder(SIDE_BUY, 3 * MICRO), 120)

\* C18: a fill that adds to a position (a buy while long, a sell while short)
\* leaves avg_entry_price = (|old| * old_avg + q * p_t) / (|old| + q) and
\* realized_pnl as it was; a buy of 1.0 at 100 and a buy of 3.0 at 120 from
\* flat give position 4.0 and avg_entry_price 115.
C18_AddAveragesEntry ==
    /\ FillAdds =>
          /\ h.avg_entry_price =
                WeightedEntry(pre.position, pre.avg_entry_price,
                              arg.order.qty, arg.fill_price_tick)
          /\ h.realized_pnl = pre.realized_pnl
    /\ TwoBuys.position = 4 * MICRO
    /\ TwoBuys.avg_entry_price = D(115)

\* The same for a buy while long alone.
C18_LongOnly ==
    (FillAdds /\ pre.position > 0) =>
        /\ h.avg_entry_price =
              WeightedEntry(pre.position, pre.avg_entry_price,
                            arg.order.qty, arg.fill_price_tick)
        /\ h.realized_pnl = pre.realized_pnl

\* (r / 1e6) * (p_t - avg) * tick_size: the gross P&L of closing r micro-units
\* of a long position entered at avg, at fill tick p_t.
GrossPnl(cfg, r, avg, p_t) ==
    RMul(RMul(Rat(r, MICRO), RSub(D(p_t), avg)), cfg.tick_size)

\* C19: a fill that reduces a position without crossing zero adds
\* (q / 1e6) * (p_t - avg_entry_price) * tick_size to realized_pnl when the
\* position was long and subtracts it when the position was short; it leaves
\* avg_entry_price as it was when the new position is not zero and sets it to
\* 0 when the new position is zero.
C19_ReduceRealizes ==
    FillReduces =>
        \E g \in {GrossPnl(pre.config, arg.order.qty, pre.avg_entry_price,
                           arg.fill_price_tick)} :
            /\ pre.position > 0 => h.realized_pnl = RAdd(pre.realized_pnl, g)
            /\ pre.position < 0 => h.realized_pnl = RSub(pre.realized_pnl, g)
            /\ h.position # 0 => h.avg_entry_price = pre.avg_entry_price
            /\ h.position = 0 => h.avg_entry_price = D(0)
            /\ Abs(h.position) = Abs(pre.position) - arg.order.qty

\* A buy that reduces a short position, at a price other than its entry, and
\* leaves some of it.
C19_Witness ==
    /\ FillReduces
    /\ pre.position < 0
    /\ h.position < 0
    /\ h.realized_pnl # pre.realized_pnl

\* From long 4.0 at 115, a sell of 6.0 at tick 130.
SellSixFromLongFour == execute_fill(TwoBuys, FillOrder(SIDE_SELL, 6 * MICRO), 130)

\* C20: a fill that crosses zero realizes the P&L of |old| micro-units at the
\* old avg_entry_price, leaves a position of the other sign and of size
\* q - |old|, and sets avg_entry_price to the fill tick; from long 4.0 at 115
\* a sell of 6.0 at 130 adds 60 to realized_pnl and leaves position -2.0 at
\* avg_entry_price 130.
C20_FlipRealizesAndReopens ==
    /\ FillFlips =>
          \E g \in {GrossPnl(pre.config, Abs(pre.position), pre.avg_entry_price,
                             arg.fill_price_tick)} :
              /\ pre.position > 0 =>
                    /\ h.realized_pnl = RAdd(pre.realized_pnl, g)
                    /\ h.position = 0 - (arg.order.qty - pre.position)
              /\ pre.position < 0 =>
                    /\ h.realized_pnl = RSub(pre.realized_pnl, g)
                    /\ h.position = arg.order.qty + pre.position
              /\ h.avg_entry_price = D(arg.fill_price_tick)
    /\ SellSixFromLongFour.realized_pnl = RAdd(TwoBuys.realized_pnl, D(60))
    /\ SellSixFromLongFour.position = 0 - 2 * MICRO
    /\ SellSixFromLongFour.avg_entry_price = D(130)

\* The sell of 6.0 at 130 from long 4.0 at 115.
C20_Witness ==
    /\ FillFlips
    /\ pre.position = 4 * MICRO
    /\ pre.avg_entry_price = D(115)
    /\ arg.order.qty = 6 * MICRO
    /\ arg.fill_price_tick = 130
    /\ h.position = 0 - 2 * MICRO

\* Whether the fill the caller is looking at was executed on a flat position.
FillOpens ==
    /\ lastOp = "execute_fill"
    /\ pre.position = 0

\* C21: a fill executed while the position is 0 sets avg_entry_price to the
\* fill tick and the position to +q on a buy and -q on a sell, and leaves
\* realized_pnl as it was.
C21_OpenSetsEntry ==
    FillOpens =>
        /\ h.avg_entry_price = D(arg.fill_price_tick)
        /\ arg.order.side = SIDE_BUY => h.position = arg.order.qty
        /\ arg.order.side = SIDE_SELL => h.position = 0 - arg.order.qty
        /\ h.realized_pnl = pre.realized_pnl

\* A sell that opens a short position on a handle that is flat again after
\* a round trip with a profit or a loss.
C21_Witness ==
    /\ FillOpens
    /\ arg.order.side = SIDE_SELL
    /\ pre.realized_pnl # D(0)
    /\ h.position < 0

\* C22: in every state that calls of new, reset, place_order, cancel_order
\* and step_tick reach, a handle whose position is 0 has avg_entry_price 0.
C22_FlatHasNoEntry ==
    IsHandle(h) => (h.position = 0 => h.avg_entry_price = D(0))

\* The sign of an integer: -1, 0 or +1.
Sign(x) == IF x > 0 THEN 1 ELSE IF x < 0 THEN 0 - 1 ELSE 0

C24_EquityConservation ==
    /\ IsHandle(h) =>
          \E s \in {engine_get_snapshot(h)} :
              /\ s.equity = RAdd(s.cash, s.unrealized_pnl)
              /\ s.position = 0 => s.unrealized_pnl = D(0)
    /\ (lastOp = "engine_get_snapshot" /\ IsHandle(pre)) =>
          /\ snap.equity = RAdd(pre.cash, snap.unrealized_pnl)
          /\ snap.cash = pre.cash
          /\ snap.position = pre.position
          /\ pre.position = 0 => snap.unrealized_pnl = D(0)

\* A snapshot of a handle with an open position away from its entry price
\* and with a realized P&L.
C24_Witness ==
    /\ lastOp = "engine_get_snapshot"
    /\ IsHandle(pre)
    /\ snap.unrealized_pnl # D(0)
    /\ pre.realized_pnl # D(0)

\* Whether a configuration has no spread and no fees.
Frictionless(cfg) ==
    /\ cfg.spread_bps = D(0)
    /\ cfg.maker_fee_bps = D(0)
    /\ cfg.taker_fee_bps = D(0)

\* Whether the fill the caller is looking at is the second on its handle and
\* closes what the first opened: the other side, the same quantity, the same
\* fill price.
RoundTrip ==
    /\ lastOp = "execute_fill"
    /\ Len(fills) = 2
    /\ fills[1].order.side # fills[2].order.side
    /\ fills[1].order.qty = fills[2].order.qty
    /\ fills[1].fill_price_tick = fills[2].fill_price_tick

\* C25: without spread and fees, on a fresh handle, a fill of any quantity at
\* any price followed by a fill of the other side, of the same quantity and
\* at the same price, leaves realized_pnl = 0, position = 0, avg_entry_price
\* = 0 and cash = initial_cash.
C25_RoundTripNeutral ==
    (RoundTrip /\ Frictionless(h.config)) =>
        /\ h.realized_pnl = D(0)
        /\ h.position = 0
        /\ h.avg_entry_price = D(0)
        /\ h.cash = h.config.initial_cash

\* A short position of 3.0 opened and closed at 120.
C25_Witness ==
    /\ RoundTrip
    /\ Frictionless(h.config)
    /\ fills[1].order.side = SIDE_SELL
    /\ fills[1].order.qty = 3 * MICRO
    /\ fills[1].fill_price_tick = 120

\* C26: with every order quantity multiplied by a scalar k > 0, at the same
\* prices and under the same configuration, position, realized_pnl,
\* unrealized_pnl and cash - initial_cash are k times what they are without
\* the scaling after every operation, and avg_entry_price is the same.
C26_ScalingTransparency ==
    (IsHandle(h) /\ IsHandle(h2)) =>
        \E s \in {engine_get_snapshot(h)}, s2 \in {engine_get_snapshot(h2)} :
            /\ h2.config = h.config
            /\ h2.position = ScaleK * h.position
            /\ h2.realized_pnl = RMul(D(ScaleK), h.realized_pnl)
            /\ s2.unrealized_pnl = RMul(D(ScaleK), s.unrealized_pnl)
            /\ RSub(h2.cash, h2.config.initial_cash)
                  = RMul(D(ScaleK), RSub(h.cash, h.config.initial_cash))
            /\ h2.avg_entry_price = h.avg_entry_price

\* A short position that a second sell has added to, after a profit or a
\* loss was realized, with the last tick away from the entry price.
C26_Witness ==
    /\ IsHandle(h) /\ IsHandle(h2)
    /\ h.position < 0 - MICRO
    /\ h2.position = ScaleK * h.position
    /\ h.realized_pnl # D(0)
    /\ calculate_unrealized_pnl(h) # D(0)
    /\ Len(fills) >= 3

\* C27: engine_reset leaves the handle exactly as engine_new leaves a new
\* one for the same configuration: cash = initial_cash, position = 0,
\* avg_entry_price = 0, realized_pnl = 0, current_ts_ms = 0, last_tick_price
\* = 0, no open orders, the configuration as it was.  No order placed before
\* the reset is filled after it: the fills since the last engine_new or
\* engine_reset are never more than the orders submitted since then.
C27_ResetIsFresh ==
    /\ (lastOp = "engine_reset" /\ IsHandle(pre)) =>
          /\ h.config = pre.config
          /\ h.cash = pre.config.initial_cash
          /\ h.position = 0
          /\ h.avg_entry_price = D(0)
          /\ h.realized_pnl = D(0)
          /\ h.current_ts_ms = 0
          /\ h.last_tick_price = 0
          /\ h.orders = <<>>
          /\ h = engine_new(pre.config, TRUE)
    /\ Len(fills) <= placed

\* A reset of a handle that held a position, had realized a profit or a
\* loss, had seen a tick and had a live order waiting.
C27_Witness ==
    /\ lastOp = "engine_reset" /\ IsHandle(pre)
    /\ pre.position # 0
    /\ pre.realized_pnl # D(0)
    /\ pre.cash # pre.config.initial_cash
    /\ pre.last_tick_price # 0
    /\ LiveOrders(pre) # <<>>

\* The struct the handle of caller c points to, NULL if it holds none.
HandleState(c) == IF handles[c] = 0 THEN NULL ELSE Deref(handles[c])

\* What the call op with argument a leaves of a handle in state x.
ApplyOp(op, a, x) ==
    CASE op = "engine_new" -> engine_new(a, TRUE)
      [] op = "engine_free" -> NULL
      [] op = "engine_reset" -> engine_reset(x)
      [] op = "engine_step_tick" -> engine_step_tick(x, a).h
      [] op = "engine_place_order" -> engine_place_order(x, a).h
      [] op = "engine_cancel_order" -> engine_cancel_order(x, a.order_id).h
      [] op = "engine_get_snapshot" -> x

\* C28: with two handles, a call on one leaves every field of the other as
\* it was, and leaves the handle it is made on in the state the call gives
\* from that handle's own previous state; so in any interleaving of calls
\* each handle goes through the states of its own sequence of calls.
C28_HandlesIndependent ==
    [][ (lastOp = "none" /\ lastOp' # "none") =>
            \A c \in Callers :
                arg'.handle = c =>
                    /\ HandleState(3 - c)' = HandleState(3 - c)
                    /\ HandleState(c)' =
                          ApplyOp(lastOp', arg'.arg, HandleState(c)) ]_vars

\* A tick on the second handle has filled an order there, while the first
\* handle holds a position and a live order that the same tick would fill.
C28_Witness ==
    /\ lastOp = "engine_step_tick"
    /\ arg.handle = 2
    /\ newFills # <<>>
    /\ handles[1] # 0 /\ handles[2] # 0
    /\ HandleState(1).position # 0
    /\ \E i \in 1..Len(LiveOrders(HandleState(1))) :
          should_fill_order(LiveOrders(HandleState(1))[i], arg.arg)

\* C29: two runs of the same calls whose ticks differ in qty and side only
\* are in the same state and return the same snapshot after every call, and
\* a tick fills the same orders at the same prices whatever its qty and
\* side: neither gates or sizes a fill.
C29_TickFlowIgnored ==
    /\ (IsHandle(h) /\ IsHandle(h2)) =>
          /\ h = h2
          /\ engine_get_snapshot(h) = engine_get_snapshot(h2)
    /\ (lastOp = "engine_step_tick" /\ IsHandle(pre)) =>
          \A variant \in TickVariants(arg) :
              engine_step_tick(pre, variant) = engine_step_tick(pre, arg)

\* A tick of side BUY has filled a buy order and a sell order in one call.
C29_Witness ==
    /\ lastOp = "engine_step_tick"
    /\ IsHandle(h) /\ IsHandle(h2)
    /\ arg.side = SIDE_BUY
    /\ \E i, j \in 1..Len(newFills) :
          /\ newFills[i].order.side = SIDE_BUY
          /\ newFills[j].order.side = SIDE_SELL

\* The quantity in real units an order of the wrapper was placed with.
RealQty(order) == CHOOSE qty \in ApiQtyInputs : ScaleQty(qty) = order.qty

\* What the first n fills of fs add up to in real units, buys counted
\* positive and sells negative.
RECURSIVE SumRealQty(_, _)
SumRealQty(fs, n) ==
    IF n = 0 THEN D(0)
    ELSE RAdd(SumRealQty(fs, n - 1),
              IF fs[n].order.side = SIDE_BUY
              THEN RealQty(fs[n].order)
              ELSE RNeg(RealQty(fs[n].order)))

\* C30: get_snapshot returns the position in real units, the stored
\* micro-unit position divided by 1,000,000: the real quantities bought less
\* those sold.  One filled buy of 1.5 from flat reports 1.5, not 1,500,000.
C30_SnapshotPositionRealUnits ==
    (lastOp = "get_snapshot" /\ IsHandle(pre)) =>
        /\ snap.position = SumRealQty(fills, Len(fills))
        /\ RMul(snap.position, D(MICRO)) = D(pre.position)
        /\ (pre.position = 1500000) =>
              (snap.position = Rat(3, 2) /\ snap.position # D(1500000))

\* The snapshot after one buy of 1.5 was filled on a flat handle.
C30_Witness ==
    /\ lastOp = "get_snapshot" /\ IsHandle(pre)
    /\ Len(fills) = 1
    /\ fills[1].order.side = SIDE_BUY
    /\ RealQty(fills[1].order) = Rat(3, 2)
    /\ pre.position = 1500000

\* How many elements of the sequence os are the order o.
CountOf(os, o) == Cardinality({ i \in 1..Len(os) : os[i] = o })

\* The orders of the fills fs, in the order they were executed.
FilledOrders(fs) == [i \in 1..Len(fs) |-> fs[i].order]

IsTickCall == lastOp = "engine_step_tick" \/ lastOp = "step_batch"

\* C31: an accepted order is filled at most once.  Every order live before a
\* step_tick is filled by it once and gone from the array after it, or is
\* not filled and still live; a slot that was filled is not left in the
\* array, so no later tick fills it again or changes the account for it; no
\* other call executes a fill; the fills since creation or the last reset
\* are never more than the orders accepted since then; and a step_tick on a
\* handle with a tick returns 0, with every eligible order filled.
C31_FilledAtMostOnce ==
    /\ (IsTickCall /\ IsHandle(pre)) =>
          /\ \A i \in 1..Len(LiveOrders(pre)) :
                \E o \in {LiveOrders(pre)[i]} :
                    CountOf(FilledOrders(newFills), o) + CountOf(LiveOrders(h), o)
                        = CountOf(LiveOrders(pre), o)
          /\ \A i \in 1..Len(newFills) :
                CountOf(LiveOrders(pre), newFills[i].order) >= 1
          /\ newFills = <<>> => Account(h) = Account(pre)
    /\ (lastOp = "engine_step_tick" /\ IsHandle(pre) /\ arg # NULL) =>
          /\ ret = 0
          /\ Len(newFills) = Len(EligibleOrders(pre, arg))
          /\ \A i \in 1..Len(h.orders) : h.orders[i].active # 0
    /\ ~IsTickCall => newFills = <<>>
    /\ Len(fills) <= placed

\* A tick at which an order filled earlier would be eligible again, and that
\* fills nothing.
C31_Witness ==
    /\ lastOp = "engine_step_tick" /\ IsHandle(pre) /\ arg # NULL
    /\ newFills = <<>>
    /\ fills # <<>>
    /\ pre.position # 0
    /\ \E i \in 1..Len(fills) : should_fill_order(fills[i].order, arg)

\* (position / 1e6) * (last_tick_price - avg_entry_price) * tick_size
MarkToLast(x) ==
    RMul(RMul(Rat(x.position, MICRO),
              RSub(D(x.last_tick_price), x.avg_entry_price)),
         x.config.tick_size)

\* C32: for a position other than zero the unrealized_pnl of the snapshot is
\* (position / 1e6) * (last_tick_price - avg_entry_price) * tick_size, with
\* last_tick_price the price_tick of the latest step_tick: the tick sets it,
\* place_order, cancel_order and get_snapshot leave it.  As it is set before
\* the fills of the tick, a position that a market order opens without a
\* spread has unrealized_pnl = 0 right after the tick that opened it.
C32_UnrealizedFromLastTick ==
    /\ (IsHandle(h) /\ h.position # 0) =>
          engine_get_snapshot(h).unrealized_pnl = MarkToLast(h)
    /\ (lastOp = "engine_get_snapshot" /\ IsHandle(pre) /\ pre.position # 0) =>
          snap.unrealized_pnl = MarkToLast(pre)
    /\ (lastOp = "engine_step_tick" /\ IsHandle(pre)) =>
          h.last_tick_price = arg.price_tick
    /\ (lastOp \in {"engine_place_order", "engine_cancel_order",
                    "engine_get_snapshot"} /\ IsHandle(pre)) =>
          h.last_tick_price = pre.last_tick_price
    /\ (lastOp = "engine_step_tick" /\ IsHandle(pre)
        /\ pre.position = 0
        /\ pre.config.spread_bps = D(0)
        /\ Len(newFills) = 1
        /\ newFills[1].order.type = ORDER_TYPE_MARKET) =>
          /\ h.position # 0
          /\ engine_get_snapshot(h).unrealized_pnl = D(0)

\* A market order has opened a position without a spread at a tick whose
\* price is not the price of the tick before it.
C32_Witness ==
    /\ lastOp = "engine_step_tick" /\ IsHandle(pre)
    /\ pre.position = 0
    /\ pre.config.spread_bps = D(0)
    /\ Len(newFills) = 1
    /\ newFills[1].order.type = ORDER_TYPE_MARKET
    /\ pre.last_tick_price # 0
    /\ pre.last_tick_price # arg.price_tick

\* A snapshot of a position marked away from its entry price.
C32_WitnessMarked ==
    /\ lastOp = "engine_get_snapshot" /\ IsHandle(pre)
    /\ pre.position < 0
    /\ snap.unrealized_pnl # D(0)

\* C33: a step_tick at which no live order is eligible sets current_ts_ms to
\* tick.ts_ms, whether later or earlier than the time before, and
\* last_tick_price to tick.price_tick, and changes nothing else: cash,
\* position, avg_entry_price, realized_pnl, the configuration and the live
\* orders are as they were (the slots of cancelled orders are dropped).
C33_IdleTickFrame ==
    (lastOp = "engine_step_tick" /\ IsHandle(pre) /\ arg # NULL
     /\ EligibleOrders(pre, arg) = <<>>) =>
        /\ ret = 0
        /\ newFills = <<>>
        /\ h.current_ts_ms = arg.ts_ms
        /\ h.last_tick_price = arg.price_tick
        /\ h.cash = pre.cash
        /\ h.position = pre.position
        /\ h.avg_entry_price = pre.avg_entry_price
        /\ h.realized_pnl = pre.realized_pnl
        /\ h.config = pre.config
        /\ LiveOrders(h) = LiveOrders(pre)
        /\ h = [pre EXCEPT !.current_ts_ms = arg.ts_ms,
                           !.last_tick_price = arg.price_tick,
                           !.orders = SelectSeq(pre.orders, IsLive)]

\* A tick earlier than the one before it, on a handle that holds a position
\* and a live order the tick does not fill.
C33_Witness ==
    /\ lastOp = "engine_step_tick" /\ IsHandle(pre) /\ arg # NULL
    /\ EligibleOrders(pre, arg) = <<>>
    /\ LiveOrders(pre) # <<>>
    /\ pre.position # 0
    /\ arg.ts_ms < pre.current_ts_ms
    /\ arg.price_tick # pre.last_tick_price

\* C34: a place_order of an order succeeds whenever the handle holds fewer
\* live orders than the capacity; so on a full array a cancel_order that
\* succeeded makes the next place_order succeed, with no step_tick between.
C34_PlaceSucceedsBelowCapacity ==
    (lastOp = "engine_place_order" /\ IsHandle(pre) /\ arg # NULL
     /\ Len(LiveOrders(pre)) < MAX_OPEN_ORDERS) =>
        ret = 0

\* The orders in the slots of the open-order array, in array order.
SlotOrders(x) == [i \in 1..Len(x.orders) |-> x.orders[i].order]

\* Whether a limit order's price condition holds at a tick price.
LimitSatisfied(o, price_tick) ==
    /\ o.type = ORDER_TYPE_LIMIT
    /\ (o.side = SIDE_BUY => price_tick <= o.price_tick)
    /\ (o.side = SIDE_SELL => price_tick >= o.price_tick)

\* C35: after every step_tick the open-order array holds exactly the orders
\* that were active before the call and not eligible at the tick, in the
\* order they had, every one of them active: no market order is in it, and
\* no limit order whose condition the tick price satisfied.  The same holds
\* after a step_batch, for the last tick of the batch.
C35_OpenSetAfterTick ==
    /\ (lastOp = "engine_step_tick" /\ IsHandle(pre) /\ arg # NULL) =>
          /\ \A i \in 1..Len(h.orders) : h.orders[i].active = 1
          /\ LET Waits(o) == ~(o.type = ORDER_TYPE_MARKET
                               \/ LimitSatisfied(o, arg.price_tick))
             IN  SlotOrders(h) = SelectSeq(LiveOrders(pre), Waits)
          /\ \A i \in 1..Len(h.orders) :
                /\ h.orders[i].order.type # ORDER_TYPE_MARKET
                /\ ~LimitSatisfied(h.orders[i].order, arg.price_tick)
    /\ (lastOp = "step_batch" /\ IsHandle(pre) /\ ret = 0
        /\ Len(arg.timestamps) >= 1) =>
          \A i \in 1..Len(h.orders) :
              /\ h.orders[i].active = 1
              /\ h.orders[i].order.type # ORDER_TYPE_MARKET
              /\ ~LimitSatisfied(h.orders[i].order,
                                 arg.price_ticks[Len(arg.price_ticks)])

\* A step_tick on a handle with a live market order and a live limit order:
\* it fills the market order, and the limit order too if the tick price
\* satisfies it.
C35_Witness ==
    /\ lastOp = "engine_step_tick" /\ IsHandle(pre) /\ arg # NULL
    /\ \E i \in 1..Len(LiveOrders(pre)) :
          LiveOrders(pre)[i].type = ORDER_TYPE_MARKET
    /\ \E i \in 1..Len(LiveOrders(pre)) :
          LiveOrders(pre)[i].type = ORDER_TYPE_LIMIT
    /\ Len(newFills) >= 1
    /\ Len(h.orders) <= 1

\* The quantities of the buys among the first n fills of fs less those of
\* the sells, in micro-units.
RECURSIVE NetFilledQty(_, _)
NetFilledQty(fs, n) ==
    IF n = 0 THEN 0
    ELSE NetFilledQty(fs, n - 1)
         + (IF fs[n].order.side = SIDE_BUY THEN fs[n].order.qty
                                           ELSE 0 - fs[n].order.qty)

\* C36: in every reachable state the position, in micro-units, is the sum of
\* the quantities of the buy fills less the sum of the quantities of the
\* sell fills executed since the handle was created or last reset.
C36_PositionIsNetOfFills ==
    IsHandle(h) => h.position = NetFilledQty(fills, Len(fills))

\* A short position left by three fills, a buy among them.
C36_Witness ==
    /\ IsHandle(h)
    /\ Len(fills) = 3
    /\ h.position < 0
    /\ \E i \in 1..3 : fills[i].order.side = SIDE_BUY

\* C37: without a taker fee, in every reachable state
\* cash + (position / 1e6) * avg_entry_price * tick_size
\*     = initial_cash + realized_pnl,
\* the position taken with its sign, whatever fills opened, added to,
\* reduced or flipped the position.
C37_CostBasisIdentity ==
    (IsHandle(h) /\ h.config.taker_fee_bps = D(0)) =>
        RAdd(h.cash,
             RMul(RMul(Rat(h.position, MICRO), h.avg_entry_price),
                  h.config.tick_size))
            = RAdd(h.config.initial_cash, h.realized_pnl)

\* The identity of C37 while the handle has never added to a short position:
\* no fill sold into a position that was already short.
C37_CostBasisIdentityLongAdds ==
    (IsHandle(h) /\ h.config.taker_fee_bps = D(0)
     /\ \A n \in 1..Len(fills) :
           ~(fills[n].order.side = SIDE_SELL /\ NetFilledQty(fills, n - 1) < 0)) =>
        RAdd(h.cash,
             RMul(RMul(Rat(h.position, MICRO), h.avg_entry_price),
                  h.config.tick_size))
            = RAdd(h.config.initial_cash, h.realized_pnl)

\* The fields of a handle that only a tick, engine_new and engine_reset
\* write.
TickState(x) ==
    [cash |-> x.cash, position |-> x.position,
     avg_entry_price |-> x.avg_entry_price, realized_pnl |-> x.realized_pnl,
     current_ts_ms |-> x.current_ts_ms, last_tick_price |-> x.last_tick_price]

\* C38: place_order, cancel_order and get_snapshot leave cash, position,
\* avg_entry_price, realized_pnl, current_ts_ms and last_tick_price as they
\* were; get_snapshot leaves the whole handle as it was; a cancel_order that
\* succeeds deactivates exactly one slot, an active one of the id, and leaves
\* every other slot, and the order of the slots, as they were.
C38_FrameOfOrderCalls ==
    /\ (lastOp \in {"engine_place_order", "engine_cancel_order",
                    "engine_get_snapshot"} /\ IsHandle(pre)) =>
          /\ TickState(h) = TickState(pre)
          /\ h.config = pre.config
          /\ newFills = <<>>
    /\ (lastOp = "engine_get_snapshot") => h = pre
    /\ (lastOp = "engine_cancel_order" /\ IsHandle(pre) /\ ret = 0) =>
          /\ Len(h.orders) = Len(pre.orders)
          /\ Cardinality({ i \in 1..Len(pre.orders) :
                              h.orders[i] # pre.orders[i] }) = 1
          /\ \A i \in 1..Len(pre.orders) :
                h.orders[i] # pre.orders[i] =>
                    /\ pre.orders[i].active # 0
                    /\ pre.orders[i].order.order_id = arg.order_id
                    /\ h.orders[i] = [pre.orders[i] EXCEPT !.active = 0]

\* A cancel_order that succeeded on a handle holding two live orders of the
\* id, after a fill and a tick.
C38_Witness ==
    /\ lastOp = "engine_cancel_order" /\ IsHandle(pre) /\ ret = 0
    /\ Cardinality({ i \in 1..Len(pre.orders) :
                        /\ pre.orders[i].active # 0
                        /\ pre.orders[i].order.order_id = arg.order_id }) = 2
    /\ pre.position # 0
    /\ pre.last_tick_price # 0

=============================================================================
